---- MODULE Spec2Model ----
(***************************************************************************)
(* QuickBooks MCP server (src/src/index.ts): the token store, the refresh  *)
(* exchange, the authenticated request executor qbRequest and the update   *)
(* handlers built on it.                                                   *)
(*                                                                         *)
(* Strings that the code takes apart (endpoints, URLs) are sequences of    *)
(* tokens, so "?" and "&" are elements that can be searched for.  JSON     *)
(* objects are functions from keys to values; a key that is absent from a  *)
(* JSON object is absent from the function's domain.                       *)
(***************************************************************************)
EXTENDS Integers, Sequences, FiniteSets, TLC

VARIABLES
  mainpc,    \* where main() stands: "boot", "serving", "auth", "exit0" or "fatal"
  auth,      \* authenticate(): the callback listener, the promise, the exchanges
  tokens,    \* the module-level `tokens` (null or the credential bundle)
  disk,      \* the credentials file CREDS_PATH
  inv,       \* per tool invocation: the handler's position and locals
  pureIn,    \* input of the pure-function specifications
  pureOut    \* their output

vars == <<mainpc, auth, tokens, disk, inv, pureIn, pureOut>>

(***************************************************************************)
(* Bounds of the model.                                                    *)
(***************************************************************************)
\* longest endpoint, in tokens, that SpecUrl feeds to the URL builder
MaxEndpointLen == 3
\* callback requests the browser (or anyone on localhost) sends to the listener
MaxCallbacks == 2
\* longest search text, in pieces, that SpecSearch feeds to the query builders
MaxTextLen == 2

(***************************************************************************)
(* Program constants.                                                      *)
(***************************************************************************)
MINOR_VERSION == 75
QB_BASE == "https://sandbox-quickbooks.api.intuit.com/v3/company"
\* process.env.QB_REALM_ID: a company id, a string of digits
REALM_ID == "4620816365"

(***************************************************************************)
(* JSON values.                                                            *)
(***************************************************************************)
EmptyObj == [k \in {} |-> ""]

\* a value that may be null: tokens, and what JSON.parse gives for a file
Null == [isNull |-> TRUE, val |-> EmptyObj]
Obj(o) == [isNull |-> FALSE, val |-> o]

\* JavaScript truthiness of a string
Truthy(s) == s # ""

\* {...a, ...b}: every key of either, b's value where b has the key
Spread(a, b) ==
  [k \in (DOMAIN a) \cup (DOMAIN b) |-> IF k \in DOMAIN b THEN b[k] ELSE a[k]]

\* n?.k is defined: n is not null and has the key
Has(n, k) == ~n.isNull /\ k \in DOMAIN n.val

(***************************************************************************)
(* Texts: file contents and HTTP bodies.  JSON.stringify builds a JSON     *)
(* text from a value, JSON.parse gives the value back or throws.           *)
(***************************************************************************)
EmptyText == [t |-> "empty"]
GarbageText == [t |-> "garbage"]
JSONstringify(v) == [t |-> "json", v |-> v]
ParseOk(text) == text.t = "json"
JSONparse(text) == text.v

(***************************************************************************)
(* qbRequest's URL.                                                        *)
(***************************************************************************)
\* s.includes(c)
Includes(s, c) == \E i \in 1..Len(s) : s[i] = c

\* `${QB_BASE}/${REALM_ID}/${endpoint}`
BaseUrl(endpoint) == <<QB_BASE, "/", REALM_ID, "/">> \o endpoint

\* `&minorversion=${MINOR_VERSION}` or `?minorversion=${MINOR_VERSION}`
MinorVersionParam(sep) == <<sep, "minorversion", "=", ToString(MINOR_VERSION)>>

\* the URL builder of the first build (src/dist/index.js): always "?"
BuildUrlAlwaysQuestionMark(endpoint) ==
  BaseUrl(endpoint) \o MinorVersionParam("?")

BuildUrl(endpoint) ==
  LET baseUrl == BaseUrl(endpoint)
  IN  baseUrl \o (IF Includes(baseUrl, "?") THEN MinorVersionParam("&")
                                            ELSE MinorVersionParam("?"))

(***************************************************************************)
(* The input mappers.  Each row of a table is one `if (...) qbo.X = ...`   *)
(* line: the input key, the test the line makes, the QBO key and the shape *)
(* of the value it stores.                                                 *)
(***************************************************************************)
Row(in, test, out, wrap) == [in |-> in, test |-> test, out |-> out, wrap |-> wrap]

\* the six address lines of billAddr / shipAddr; undefined members are not
\* serialized
AddrKeys ==
  [line1 |-> "Line1", line2 |-> "Line2", city |-> "City",
   countrySubDivisionCode |-> "CountrySubDivisionCode",
   postalCode |-> "PostalCode", country |-> "Country"]

MapAddr(a) ==
  LET outs == {AddrKeys[k] : k \in DOMAIN a \cap DOMAIN AddrKeys}
  IN  [o \in outs |-> a[CHOOSE k \in DOMAIN a \cap DOMAIN AddrKeys : AddrKeys[k] = o]]

\* does the line's condition hold of the value: `if (v)` on a string or an
\* object, `typeof v === "..."` on a value of that type
Passes(test, v) ==
  IF test = "truthy" THEN Truthy(v) ELSE TRUE

Wrap(wrap, v) ==
  CASE wrap = "none" -> v
    [] wrap = "not" -> ~v
    [] wrap = "Address" -> [Address |-> v]
    [] wrap = "FreeFormNumber" -> [FreeFormNumber |-> v]
    [] wrap = "value" -> [value |-> v]
    [] wrap = "addr" -> MapAddr(v)

\* a mapper that also copies the keys it does not know
MapInputPassThrough(table, input) ==
  LET hits == {i \in 1..Len(table) :
                 /\ table[i].in \in DOMAIN input
                 /\ Passes(table[i].test, input[table[i].in])}
      row(o) == table[CHOOSE i \in hits : table[i].out = o]
      outs == {table[i].out : i \in hits}
      rest == DOMAIN input \ {table[i].in : i \in 1..Len(table)}
  IN  [o \in outs \cup rest |->
         IF o \in outs THEN Wrap(row(o).wrap, input[row(o).in]) ELSE input[o]]

MapInput(table, input) ==
  LET hits == {i \in 1..Len(table) :
                 /\ table[i].in \in DOMAIN input
                 /\ Passes(table[i].test, input[table[i].in])}
      row(o) == table[CHOOSE i \in hits : table[i].out = o]
  IN  [o \in {table[i].out : i \in hits} |-> Wrap(row(o).wrap, input[row(o).in])]

CustomerTable ==
  << Row("displayName", "truthy", "DisplayName", "none"),
     Row("companyName", "truthy", "CompanyName", "none"),
     Row("title", "truthy", "Title", "none"),
     Row("givenName", "truthy", "GivenName", "none"),
     Row("middleName", "truthy", "MiddleName", "none"),
     Row("familyName", "truthy", "FamilyName", "none"),
     Row("suffix", "truthy", "Suffix", "none"),
     Row("taxExempt", "boolean", "Taxable", "not"),
     Row("notes", "truthy", "Notes", "none"),
     Row("primaryEmail", "truthy", "PrimaryEmailAddr", "Address"),
     Row("primaryPhone", "truthy", "PrimaryPhone", "FreeFormNumber"),
     Row("mobilePhone", "truthy", "Mobile", "FreeFormNumber"),
     Row("fax", "truthy", "Fax", "FreeFormNumber"),
     Row("billAddr", "object", "BillAddr", "addr"),
     Row("shipAddr", "object", "ShipAddr", "addr") >>

AccountTable ==
  << Row("name", "truthy", "Name", "none"),
     Row("fullyQualifiedName", "truthy", "FullyQualifiedName", "none"),
     Row("accountType", "truthy", "AccountType", "none"),
     Row("accountSubType", "truthy", "AccountSubType", "none"),
     Row("description", "truthy", "Description", "none"),
     Row("classification", "truthy", "Classification", "none"),
     Row("accountNumber", "truthy", "AcctNum", "none"),
     Row("taxCodeRef", "string", "TaxCodeRef", "value"),
     Row("currencyRef", "truthy", "CurrencyRef", "value"),
     Row("subAccount", "boolean", "SubAccount", "none"),
     Row("parentRef", "truthy", "ParentRef", "value"),
     Row("currentBalance", "number", "CurrentBalance", "none"),
     Row("active", "boolean", "Active", "none") >>

mapCustomerInputToQBO(input) == MapInput(CustomerTable, input)

mapAccountInputToQBO(input) == MapInput(AccountTable, input)

(***************************************************************************)
(* The values the environment supplies: credential bundles, tool inputs    *)
(* and the answers of the remote API and of the token endpoint.            *)
(***************************************************************************)
\* partial records: every choice of a subset of the keys of `vals` and, for
\* each chosen key k, of a value in vals[k]
Partial(vals) ==
  UNION { {f \in [D -> UNION {vals[k] : k \in DOMAIN vals}] :
             \A k \in D : f[k] \in vals[k]} : D \in SUBSET DOMAIN vals }

\* bundles a credentials file may hold ("" is a falsy string): the empty
\* object, or the realm next to any choice of the two tokens
Bundles ==
  {EmptyObj}
    \cup {Spread(b, [realmId |-> "E1"]) :
            b \in Partial([access_token |-> {"", "A1"},
                           refresh_token |-> {"", "R1"}])}

\* what the token endpoint may grant
RefreshData ==
  Partial([access_token |-> {"A2"},
           refresh_token |-> {"R2"}])

FileTexts ==
  {EmptyText, GarbageText, JSONstringify(Null)}
    \cup {JSONstringify(Obj(b)) : b \in Bundles}

Disks == {[exists |-> FALSE, text |-> EmptyText]}
           \cup {[exists |-> TRUE, text |-> x] : x \in FileTexts}

Procs == {"p1"}

Ids == {"42", "99"}
\* the ids that resolve to an entity on the remote service
RemoteIds == {"42"}
SyncTokens == {"0", "3"}

CustomerPatches ==
  { [displayName |-> "Acme", notes |-> "", taxExempt |-> FALSE],
    [primaryEmail |-> "a@b.co", billAddr |-> [line1 |-> "1 Main St", city |-> "Paris"]] }

AccountPatches ==
  { [active |-> FALSE],
    [name |-> "Cash", description |-> "", taxCodeRef |-> ""] }

\* an update input: the id, the patch keys, and sparse when the caller gave it
UpdateInputs(patches) ==
  {[id |-> i, patch |-> x] : i \in Ids, x \in patches}
    \cup {[id |-> i, patch |-> x, sparse |-> b] : i \in Ids, x \in patches, b \in BOOLEAN}

\* paginationSchema with its defaults, and a second page
Pagings == {[startPosition |-> 1, maxResults |-> 50],
            [startPosition |-> 51, maxResults |-> 50]}

\* search inputs as searchSchema / accountSearchSchema deliver them
CustomerSearches ==
  { [displayName |-> <<"Acme">>, activeOnly |-> TRUE,
     orderBy |-> "Metadata.LastUpdatedTime", sort |-> "DESC",
     startPosition |-> 1, maxResults |-> 50],
    [displayName |-> <<"Acme", "'">>, email |-> <<>>, activeOnly |-> FALSE,
     orderBy |-> "DisplayName", sort |-> "ASC",
     startPosition |-> 1, maxResults |-> 50] }

AccountSearches ==
  { [name |-> <<"Acme">>, accountType |-> <<"Acme", "'">>, activeOnly |-> TRUE,
     orderBy |-> "Metadata.LastUpdatedTime", sort |-> "DESC",
     startPosition |-> 1, maxResults |-> 50] }

\* customerCreateSchema (displayName of one character at least) and
\* accountCreateSchema (name and accountType likewise)
CustomerCreates ==
  { [displayName |-> "Acme"],
    [displayName |-> "Acme", notes |-> "", taxExempt |-> FALSE] }

AccountCreates ==
  { [name |-> "Cash", accountType |-> "Bank", description |-> ""] }

ToolInputs ==
  [get_customer_by_id |-> {[id |-> i] : i \in Ids},
   list_customers |-> Pagings,
   search_customers |-> CustomerSearches,
   create_customer |-> CustomerCreates,
   update_customer |-> UpdateInputs(CustomerPatches),
   set_customer_active |-> {[id |-> i, active |-> b] : i \in Ids, b \in BOOLEAN},
   get_customer_by_display_name |-> {[displayName |-> <<"Acme">>],
                                     [displayName |-> <<"Acme", "'">>]},
   get_account_by_id |-> {[id |-> i] : i \in Ids},
   list_accounts |-> Pagings,
   search_accounts |-> AccountSearches,
   create_account |-> AccountCreates,
   update_account |-> UpdateInputs(AccountPatches),
   set_account_active |-> {[id |-> i, active |-> b] : i \in Ids, b \in BOOLEAN}]

\* the tools main() registers
Tools == DOMAIN ToolInputs
\* read-modify-write tools; tools that run one query; tools that create
UpdateTools ==
  {"update_customer", "set_customer_active", "update_account", "set_account_active"}
QueryTools ==
  {"list_customers", "search_customers", "get_customer_by_display_name",
   "list_accounts", "search_accounts"}
CreateTools == {"create_customer", "create_account"}
AccountTools ==
  {"get_account_by_id", "list_accounts", "search_accounts", "create_account",
   "update_account", "set_account_active"}

\* the resource a tool works on, and the wrapper key of its responses
Resource(tool) == IF tool \in AccountTools THEN "account" ELSE "customer"
WrapperKey(tool) == IF tool \in AccountTools THEN "Account" ELSE "Customer"

\* a JSON array, kept apart from an object
Arr(s) == [items |-> s]

\* entity records the remote service may return for an id
Entities(id) == Partial([Id |-> {"", id}, SyncToken |-> SyncTokens])

ApiStatuses == {200, 400, 401, 500}
TokenStatuses == {200, 400}

FaultText == JSONstringify([Fault |-> "error"])
ErrTexts == {EmptyText, FaultText}

\* resp.ok
IsOk(status) == status >= 200 /\ status <= 299

\* the record the remote service stores for a create, and the rows a query
\* matches
CreatedEntity == [Id |-> "77", SyncToken |-> "0"]
QueryRowSets == {<<>>, <<[Id |-> "42", SyncToken |-> "3"]>>}

\* 2xx bodies: no body, not JSON, or a JSON object; the entity only for an id
\* that resolves, rows only for a query
OkTexts(tool, input) ==
  {EmptyText, GarbageText, JSONstringify(EmptyObj), JSONstringify([needRefresh |-> TRUE])}
    \cup (CASE tool \in QueryTools ->
                 {JSONstringify([QueryResponse |-> EmptyObj])}
                   \cup {JSONstringify([QueryResponse |->
                                          [k \in {WrapperKey(tool)} |-> Arr(rows)]]) :
                           rows \in QueryRowSets}
             [] tool \in CreateTools ->
                 {JSONstringify([k \in {WrapperKey(tool)} |-> CreatedEntity])}
             [] OTHER ->
                 IF input.id \in RemoteIds
                   THEN {JSONstringify([k \in {WrapperKey(tool)} |-> e]) :
                           e \in Entities(input.id)}
                   ELSE {})

ApiResponses(tool, input) ==
  {[status |-> s, text |-> x] : s \in {c \in ApiStatuses : IsOk(c)}, x \in OkTexts(tool, input)}
    \cup {[status |-> s, text |-> x] : s \in {c \in ApiStatuses : ~IsOk(c)}, x \in ErrTexts}

AllApiResponses ==
  UNION {UNION {ApiResponses(tool, input) : input \in ToolInputs[tool]} : tool \in Tools}

TokenResponses ==
  {[status |-> s, text |-> x] :
     s \in {c \in TokenStatuses : IsOk(c)},
     x \in {GarbageText, JSONstringify(Null)} \cup {JSONstringify(Obj(d)) : d \in RefreshData}}
    \cup {[status |-> s, text |-> x] : s \in {c \in TokenStatuses : ~IsOk(c)}, x \in ErrTexts}

(***************************************************************************)
(* Errors and results of a tool invocation.                                *)
(***************************************************************************)
\* new Error(...): the kind names the message, status and text are the parts
\* the message carries (0 and EmptyText where it carries none)
Err(kind, status, text) == [kind |-> kind, status |-> status, text |-> text]
PlainErr(kind) == Err(kind, 0, EmptyText)

NoOutcome == [state |-> "none"]
Failed(err) == [state |-> "error", err |-> err]
Succeeded(payload) == [state |-> "ok", payload |-> payload]

\* doFetch's `resp` and `text` before any response has arrived
NoResponse == [status |-> 0, text |-> EmptyText]

IdleInv ==
  [pc |-> "idle", tool |-> "none", input |-> EmptyObj, phase |-> "none",
   endpoint |-> <<>>, options |-> EmptyObj, attempt |-> 0,
   resp |-> NoResponse, existing |-> Null, log |-> <<>>, chan |-> <<>>,
   outcome |-> NoOutcome]

(***************************************************************************)
(* Token store: saveTokens and loadTokens.                                 *)
(***************************************************************************)
\* a save that leaves an empty file behind
saveTokensTruncates(newTokens) == [exists |-> TRUE, text |-> EmptyText]

\* fs.writeFileSync(CREDS_PATH, JSON.stringify(newTokens, null, 2))
saveTokens(newTokens) == [exists |-> TRUE, text |-> JSONstringify(newTokens)]

\* how a call of saveTokens ends: the file is written; mkdirSync or the open
\* of the file throws and the file is as it was; or the write throws after
\* the open, which has truncated (or created) the file, before any byte of
\* the text went out (write_fails) or after a part of it did (write_partial)
SaveOutcomes == {"ok", "open_fails", "write_fails", "write_partial"}

\* the credentials file after a saveTokens that threw: as it was, empty, or
\* holding a proper prefix of the JSON text, which does not parse
FailedSave(d, how) ==
  CASE how = "write_fails" -> [exists |-> TRUE, text |-> EmptyText]
    [] how = "write_partial" -> [exists |-> TRUE, text |-> GarbageText]
    [] OTHER -> d

\* process.argv[2]: "auth" runs authenticate(), anything else serves
Modes == {"serve", "auth"}

\* authenticate() has not run
NoAuth ==
  [listening |-> FALSE, promise |-> "none", callbacks |-> 0,
   exchanges |-> 0, inflight |-> 0, resp |-> NoResponse, settles |-> 0,
   openAtSettle |-> FALSE, settledBy |-> "none"]

\* authenticate() up to `return new Promise(...)`: the route is registered,
\* the server listens on 3000 and the promise is pending
StartAuth == [NoAuth EXCEPT !.listening = TRUE, !.promise = "pending"]

\* a loadTokens that never reads the file
LoadedTokensNever(d, tk) == tk

\* tokens after loadTokens() has returned
LoadedTokens(d, tk) == IF d.exists THEN JSONparse(d.text) ELSE tk

\* main() up to its first await: loadTokens(), then the mode.  A missing
\* file leaves tokens null, a file that does not parse throws, and
\* main().catch ends the process
LoadTokens(mode) ==
  /\ mainpc = "boot"
  /\ IF disk.exists /\ ~ParseOk(disk.text)
       THEN /\ mainpc' = "fatal"
            /\ UNCHANGED <<tokens, auth>>
       ELSE /\ tokens' = LoadedTokens(disk, tokens)
            /\ IF mode = "auth"
                 THEN mainpc' = "auth" /\ auth' = StartAuth
                 ELSE mainpc' = "serving" /\ UNCHANGED auth
  /\ UNCHANGED <<disk, inv, pureIn, pureOut>>

(***************************************************************************)
(* authenticate(): the callback listener and the code exchange.            *)
(***************************************************************************)
\* req.query.code: absent, or a code
Codes == {"", "c1"}

\* what the token endpoint answers to an authorization_code grant: the
\* bundle, the JSON value null, an OAuth error object, or a body that is no
\* JSON; resp.json() accepts every JSON value and the handler stores it
GrantedBundle == [access_token |-> "A1", refresh_token |-> "R1"]
InvalidGrant == [error |-> "invalid_grant"]
ExchangeResponses ==
  {[status |-> 200, text |-> x] :
     x \in {JSONstringify(Obj(GrantedBundle)), JSONstringify(Null), GarbageText}}
    \cup {[status |-> 400, text |-> x] : x \in {JSONstringify(Obj(InvalidGrant)), EmptyText}}

\* reject(...) and resolve() of the promise authenticate() returned: only
\* the first settles it.  openAtSettle records whether the server was still
\* accepting connections at that moment, settledBy the kind of handler that
\* settled it: the turn of the event loop in which main() will resume
Settle(a, how, by) ==
  IF a.promise = "pending"
    THEN [a EXCEPT !.promise = how, !.settles = a.settles + 1,
                   !.openAtSettle = a.listening, !.settledBy = by]
    ELSE a

\* a handler that leaves the server open
CloseServerSkipped(a) == a

\* server.close(): the listener accepts no further connection
CloseServer(a) == [a EXCEPT !.listening = FALSE]

\* the process has exited: its sockets are closed
Exited(a) == [a EXCEPT !.listening = FALSE]

\* a callback whose handler starts the exchange whether or not it has a code
OnCallbackAlwaysExchanges(a, code) ==
  [a EXCEPT !.callbacks = a.callbacks + 1,
            !.exchanges = a.exchanges + 1, !.inflight = a.inflight + 1]

\* app.get("/callback") up to its first await: without a code the handler
\* answers, rejects and returns, and the listener stays as it is
OnCallback(a, code) ==
  IF ~Truthy(code)
    THEN Settle([a EXCEPT !.callbacks = a.callbacks + 1], "rejected", "callback")
    ELSE [a EXCEPT !.callbacks = a.callbacks + 1,
                   !.exchanges = a.exchanges + 1, !.inflight = a.inflight + 1]

\* a GET /callback reaches the listener.  After reject("No code") main()
\* resumes only when the turn's handlers have returned, so a request that
\* arrived with the rejected one (pipelined on the connection) is still
\* dispatched; once an exchange handler has settled the promise, main()
\* resumes before the listener is polled again
Callback(code) ==
  /\ mainpc = "auth"
  /\ auth.listening
  /\ auth.settledBy \in {"none", "callback"}
  /\ auth.callbacks < MaxCallbacks
  /\ auth' = OnCallback(auth, code)
  /\ UNCHANGED <<mainpc, tokens, disk, inv, pureIn, pureOut>>

\* the callback handler from `await resp.json()` on, up to resolve() or
\* reject(err); how tells the way saveTokens ends.  main() resumes later, so
\* a handler whose exchange is answered in the same turn still runs; after
\* a rejection for want of a code the process exits before any answer of
\* the token endpoint is read
ExchangeRespond(r, how) ==
  /\ mainpc = "auth"
  /\ auth.inflight > 0
  /\ auth.settledBy \in {"none", "exchange"}
  /\ r \in ExchangeResponses
  /\ LET a == [auth EXCEPT !.inflight = auth.inflight - 1, !.resp = r]
     IN  IF ~ParseOk(r.text)
           THEN /\ auth' = Settle(a, "rejected", "exchange")
                /\ UNCHANGED <<tokens, disk>>
           ELSE /\ tokens' = JSONparse(r.text)
                /\ IF how = "ok"
                     THEN /\ disk' = saveTokens(JSONparse(r.text))
                          /\ auth' = Settle(CloseServer(a), "resolved", "exchange")
                     ELSE /\ disk' = FailedSave(disk, how)
                          /\ auth' = Settle(a, "rejected", "exchange")
  /\ UNCHANGED <<mainpc, inv, pureIn, pureOut>>

\* main() after `await authenticate()`: process.exit(0) when the promise was
\* resolved; when it was rejected the await throws and main().catch calls
\* process.exit(1)
AuthReturn ==
  /\ mainpc = "auth"
  /\ auth.promise \in {"resolved", "rejected"}
  /\ mainpc' = IF auth.promise = "resolved" THEN "exit0" ELSE "fatal"
  /\ auth' = Exited(auth)
  /\ UNCHANGED <<tokens, disk, inv, pureIn, pureOut>>

(***************************************************************************)
(* qbRequest and doFetch.                                                  *)
(***************************************************************************)
\* a qbRequest without its first line
NoAccessTokenUnchecked(tk) == FALSE

\* !tokens?.access_token
NoAccessToken(tk) == ~(Has(tk, "access_token") /\ Truthy(tk.val.access_token))

\* a guard that only asks whether a bundle was loaded
NoRefreshTokenNullOnly(tk) == tk.isNull

\* !tokens?.refresh_token
NoRefreshToken(tk) == ~(Has(tk, "refresh_token") /\ Truthy(tk.val.refresh_token))

\* tokens.refresh_token as URLSearchParams renders it
RefreshToken(tk) == IF Has(tk, "refresh_token") THEN tk.val.refresh_token ELSE "undefined"

\* tokens!.access_token as the template string renders it
AccessToken(tk) == IF Has(tk, "access_token") THEN tk.val.access_token ELSE "undefined"

NoBody == [t |-> "none"]

\* a doFetch that declares a JSON body on every request
DoFetchRequestAlwaysJson(endpoint, options, tk) ==
  [url |-> BuildUrl(endpoint),
   method |-> IF "method" \in DOMAIN options THEN options.method ELSE "GET",
   headers |->
     Spread(Spread([Authorization |-> [scheme |-> "Bearer", token |-> AccessToken(tk)],
                    Accept |-> "application/json"],
                   [k \in {"Content-Type"} |-> "application/json"]),
            IF "headers" \in DOMAIN options THEN options.headers ELSE EmptyObj),
   body |-> IF "body" \in DOMAIN options THEN JSONstringify(options.body) ELSE NoBody]

\* the request doFetch hands to fetch(); a body, where a caller passes one,
\* is an object and so truthy
DoFetchRequest(endpoint, options, tk) ==
  [url |-> BuildUrl(endpoint),
   method |-> IF "method" \in DOMAIN options THEN options.method ELSE "GET",
   headers |->
     Spread(Spread([Authorization |-> [scheme |-> "Bearer", token |-> AccessToken(tk)],
                    Accept |-> "application/json"],
                   IF "body" \in DOMAIN options
                     THEN [k \in {"Content-Type"} |-> "application/json"]
                     ELSE EmptyObj),
            IF "headers" \in DOMAIN options THEN options.headers ELSE EmptyObj),
   body |-> IF "body" \in DOMAIN options THEN JSONstringify(options.body) ELSE NoBody]

\* an event of an invocation's log, tagged with the handler's phase
Event(i, ev) == Spread(ev, [phase |-> i.phase, attempt |-> i.attempt])

Logged(i, evs) ==
  [i EXCEPT !.log = i.log \o [n \in 1..Len(evs) |-> Event(i, evs[n])]]

\* What the invocation puts on the process's channels, in order: lines on
\* stderr (the diagnostic channel), lines on stdout (the channel of the MCP
\* transport, where tool results travel) and calls on the network.
\* console.log: a line on stdout
ConsoleLog(i, line) == [i EXCEPT !.chan = Append(@, [ch |-> "stdout", line |-> line])]

\* console.error: a line on stderr
ConsoleError(i, line) == [i EXCEPT !.chan = Append(@, [ch |-> "stderr", line |-> line])]

\* fetch(url, ...) is called / its response has arrived
Wire(i, dir) == [i EXCEPT !.chan = Append(@, [ch |-> "net", line |-> [kind |-> dir]])]

\* doFetch up to `await fetch(...)`: the URL is logged, the request is sent
SendRequest(i, req) ==
  Logged(Wire(ConsoleError(i, [kind |-> "Requesting", url |-> req.url]), "request"),
         << [ev |-> "request", req |-> req] >>)

\* doFetch after the await: the text is read, status and body are logged
ReceiveResponse(i, r) ==
  ConsoleError(
    ConsoleError(
      Logged(Wire([i EXCEPT !.resp = r], "response"),
             << [ev |-> "response", status |-> r.status] >>),
      [kind |-> "status", status |-> r.status]),
    [kind |-> "body", text |-> r.text])

\* a retry that sends no body
RetryRequestNoBody(i, tk) ==
  DoFetchRequest(i.endpoint, [k \in DOMAIN i.options \ {"body"} |-> i.options[k]], tk)

\* a retry that sends the Authorization header of the first request again
RetryRequestStaleToken(i, tk) ==
  [DoFetchRequest(i.endpoint, i.options, tk)
     EXCEPT !.headers = i.log[CHOOSE n \in 1..Len(i.log) : i.log[n].ev = "request"
                                                            /\ i.log[n].phase = i.phase].req.headers]

\* qbRequest's second doFetch(): the same closure, tokens read anew
RetryRequest(i, tk) == DoFetchRequest(i.endpoint, i.options, tk)

\* the handler throws: the invocation ends as a failed result
\* a handler that swallows the error and returns what it has fetched
ThrowReturnsPartial(i, err) ==
  [i EXCEPT !.pc = "done", !.outcome = Succeeded(i.existing)]

\* throw new Error(...): the handler's promise rejects with err
Throw(i, err) == [i EXCEPT !.pc = "done", !.outcome = Failed(err)]

\* the first lines of qbRequest, up to doFetch's await fetch(...)
QbStart(p) ==
  /\ mainpc = "serving"
  /\ inv[p].pc = "qb_start"
  /\ inv' = [inv EXCEPT ![p] =
       IF NoAccessToken(tokens)
         THEN Throw(inv[p], PlainErr("NotAuthenticated"))
         ELSE [SendRequest(inv[p], DoFetchRequest(inv[p].endpoint, inv[p].options, tokens))
               EXCEPT !.pc = "await_api"]]
  /\ UNCHANGED <<mainpc, tokens, disk, pureIn, pureOut, auth>>

(***************************************************************************)
(* The query tools.  A search text is a sequence of pieces, a piece being  *)
(* a run of ordinary characters or one single quote; the SQL is a sequence *)
(* of tokens, with the blanks between words left implicit.                 *)
(***************************************************************************)
Pieces == {"Acme", "'"}
Texts == UNION {[1..n -> Pieces] : n \in 0..MaxTextLen}

\* s.replace(/'/g, "\\'")
RECURSIVE esc(_)
esc(s) ==
  IF s = <<>> THEN <<>>
  ELSE (IF Head(s) = "'" THEN <<"\\", "'">> ELSE <<Head(s)>>) \o esc(Tail(s))

\* one `if (x) conditions.push(...)` line: input key, column, operator
Filter(in, column, op) == [in |-> in, column |-> column, op |-> op]

CustomerFilters ==
  << Filter("displayName", "DisplayName", "LIKE"),
     Filter("companyName", "CompanyName", "LIKE"),
     Filter("givenName", "GivenName", "LIKE"),
     Filter("familyName", "FamilyName", "LIKE"),
     Filter("email", "PrimaryEmailAddr.Address", "LIKE"),
     Filter("phone", "PrimaryPhone.FreeFormNumber", "LIKE") >>

AccountFilters ==
  << Filter("name", "Name", "LIKE"),
     Filter("accountType", "AccountType", "="),
     Filter("accountSubType", "AccountSubType", "="),
     Filter("classification", "Classification", "=") >>

\* `X LIKE '${esc(v)}%'` or `X = '${esc(v)}'`
Condition(f, v) ==
  IF f.op = "LIKE"
    THEN <<f.column, "LIKE", "'">> \o esc(v) \o <<"%", "'">>
    ELSE <<f.column, "=", "'">> \o esc(v) \o <<"'">>

\* the conditions pushed for the filters, in the order of the lines
RECURSIVE FilterConditions(_, _)
FilterConditions(filters, input) ==
  IF filters = <<>> THEN <<>>
  ELSE LET f == Head(filters)
       IN  (IF f.in \in DOMAIN input /\ input[f.in] # <<>>
              THEN <<Condition(f, input[f.in])>> ELSE <<>>)
             \o FilterConditions(Tail(filters), input)

\* a join with OR
RECURSIVE JoinOr(_)
JoinOr(conds) ==
  IF Len(conds) = 1 THEN Head(conds)
  ELSE Head(conds) \o <<"OR">> \o JoinOr(Tail(conds))

\* conditions.join(" AND "), of one condition at least
RECURSIVE JoinAnd(_)
JoinAnd(conds) ==
  IF Len(conds) = 1 THEN Head(conds)
  ELSE Head(conds) \o <<"AND">> \o JoinAnd(Tail(conds))

\* the handler of search_customers / search_accounts up to `const sql`
SearchSql(entity, filters, input) ==
  LET conditions ==
        (IF "activeOnly" \in DOMAIN input
           THEN << <<"Active", "=", IF input.activeOnly THEN "true" ELSE "false">> >>
           ELSE <<>>)
          \o FilterConditions(filters, input)
      where == IF conditions # <<>> THEN <<"WHERE">> \o JoinAnd(conditions) ELSE <<>>
  IN  <<"SELECT", "*", "FROM", entity>> \o where
        \o <<"ORDER BY", input.orderBy, input.sort,
             "STARTPOSITION", ToString(input.startPosition),
             "MAXRESULTS", ToString(input.maxResults)>>

SearchEntity(tool) ==
  IF tool \in {"search_accounts", "list_accounts"} THEN "Account" ELSE "Customer"
SearchFilters(tool) == IF tool = "search_accounts" THEN AccountFilters ELSE CustomerFilters

\* the handlers of list_customers / list_accounts up to `const sql`
ListSql(entity, input) ==
  <<"SELECT", "*", "FROM", entity,
    "ORDER BY", "Metadata.LastUpdatedTime", "DESC",
    "STARTPOSITION", ToString(input.startPosition),
    "MAXRESULTS", ToString(input.maxResults)>>

\* the handler of get_customer_by_display_name up to `const sql`
DisplayNameSql(input) ==
  <<"SELECT", "*", "FROM", "Customer", "WHERE", "DisplayName", "=", "'">>
    \o esc(input.displayName) \o <<"'">>

\* encodeURIComponent, token by token: letters, digits and - _ . ! ~ * ' ( )
\* stay, everything else is percent-encoded (as is every blank)
EncodeToken(t) ==
  CASE t = "=" -> "%3D"
    [] t = "%" -> "%25"
    [] t = "\\" -> "%5C"
    [] t = "?" -> "%3F"
    [] t = "/" -> "%2F"
    [] t = "ORDER BY" -> "ORDER%20BY"
    [] OTHER -> t

encodeURIComponent(sql) == [n \in 1..Len(sql) |-> EncodeToken(sql[n])]

\* qbQuery: `query?query=${encodeURIComponent(sql)}`
QueryEndpoint(sql) == <<"query", "?", "query=">> \o encodeURIComponent(sql)

(***************************************************************************)
(* The update handlers around qbRequest.                                   *)
(***************************************************************************)
\* const { ..., sparse = true, ...patch } = input
SparseOf(input) == IF "sparse" \in DOMAIN input THEN input.sparse ELSE TRUE

\* a write body that always sends the entity's first version
UpdateBodyFixedSyncToken(existing, sparse, mapped) ==
  Spread(Spread([Id |-> existing.Id, SyncToken |-> "0"],
                IF sparse THEN [sparse |-> TRUE] ELSE EmptyObj),
         mapped)

\* { Id, SyncToken, ...(sparse ? { sparse: true } : {}), ...map(patch) }
UpdateBody(existing, sparse, mapped) ==
  Spread(Spread([Id |-> existing.Id, SyncToken |-> existing.SyncToken],
                IF sparse THEN [sparse |-> TRUE] ELSE EmptyObj),
         mapped)

\* { Id, SyncToken, sparse: true, Active: active }
SetActiveBody(existing, active) ==
  [Id |-> existing.Id, SyncToken |-> existing.SyncToken,
   sparse |-> TRUE, Active |-> active]

WriteBody(tool, input, existing) ==
  CASE tool = "update_customer" ->
         UpdateBody(existing, SparseOf(input), mapCustomerInputToQBO(input.patch))
    [] tool = "update_account" ->
         UpdateBody(existing, SparseOf(input), mapAccountInputToQBO(input.patch))
    [] OTHER -> SetActiveBody(existing, input.active)

\* data?.Customer, data?.Account
Unwrap(tool, data) ==
  IF WrapperKey(tool) \in DOMAIN data THEN Obj(data[WrapperKey(tool)]) ELSE Null

\* a check that asks for the keys and not for a non-empty Id
NoUsableEntityKeysOnly(existing) ==
  \/ ~Has(existing, "Id")
  \/ "SyncToken" \notin DOMAIN existing.val

\* !existing?.Id || existing.SyncToken === undefined
NoUsableEntity(existing) ==
  \/ ~Has(existing, "Id")
  \/ ~Truthy(existing.val.Id)
  \/ "SyncToken" \notin DOMAIN existing.val

\* the SQL a query tool builds
QuerySql(tool, input) ==
  CASE tool \in {"list_customers", "list_accounts"} -> ListSql(SearchEntity(tool), input)
    [] tool = "get_customer_by_display_name" -> DisplayNameSql(input)
    [] OTHER -> SearchSql(SearchEntity(tool), SearchFilters(tool), input)

\* the endpoint and the options of a handler's first qbRequest
FirstEndpoint(tool, input) ==
  CASE tool \in QueryTools -> QueryEndpoint(QuerySql(tool, input))
    [] tool \in CreateTools -> <<Resource(tool)>>
    [] OTHER -> <<Resource(tool), "/", input.id>>

FirstOptions(tool, input) ==
  CASE tool = "get_customer_by_id" -> EmptyObj
    [] tool = "create_customer" ->
         [method |-> "POST", body |-> mapCustomerInputToQBO(input)]
    [] tool = "create_account" ->
         [method |-> "POST", body |-> mapAccountInputToQBO(input)]
    [] OTHER -> [method |-> "GET"]

\* the handler a tool call enters, up to its first qbRequest
StartHandler(tool, input) ==
  [IdleInv EXCEPT
     !.pc = "qb_start", !.tool = tool, !.input = input,
     !.phase = IF tool \in UpdateTools THEN "fetch" ELSE "single",
     !.endpoint = FirstEndpoint(tool, input),
     !.options = FirstOptions(tool, input),
     !.attempt = 1]

\* data?.QueryResponse?.Customer ?? []
QueryRows(tool, data) ==
  IF "QueryResponse" \in DOMAIN data /\ WrapperKey(tool) \in DOMAIN data.QueryResponse
    THEN data.QueryResponse[WrapperKey(tool)]
    ELSE Arr(<<>>)

\* what a handler with one qbRequest returns for `data`
SingleResult(tool, data) ==
  CASE tool = "get_customer_by_id" -> Unwrap(tool, data)
    [] tool = "get_customer_by_display_name" ->
         LET customers == QueryRows(tool, data)
         IN  IF customers.items # <<>> THEN Obj(customers.items[1]) ELSE Null
    [] tool \in QueryTools -> Obj(QueryRows(tool, data))
    [] OTHER ->
         LET hit == Unwrap(tool, data) IN IF hit.isNull THEN Obj(data) ELSE hit

\* the handler's lines after a qbRequest has returned `data`
HandlerResume(i, data) ==
  CASE i.phase = "single" ->
         [i EXCEPT !.pc = "done", !.outcome = Succeeded(SingleResult(i.tool, data))]
    [] i.phase = "fetch" ->
         LET existing == Unwrap(i.tool, data)
         IN  IF NoUsableEntity(existing)
               THEN Throw([i EXCEPT !.existing = existing], PlainErr("CouldNotFetch"))
               ELSE LET body == WriteBody(i.tool, i.input, existing.val)
                    IN  Logged([i EXCEPT !.pc = "qb_start", !.phase = "write",
                                         !.existing = existing,
                                         !.endpoint = <<Resource(i.tool), "?", "operation=update">>,
                                         !.options = [method |-> "POST", body |-> body],
                                         !.attempt = 1],
                               << [ev |-> "body", body |-> body] >>)
    [] i.phase = "write" ->
         LET updated == Unwrap(i.tool, data)
         IN  [i EXCEPT !.pc = "done",
                       !.outcome = Succeeded(IF updated.isNull THEN Obj(data) ELSE updated)]

Invoke(p, tool, input) ==
  /\ mainpc = "serving"
  /\ inv[p].pc = "idle"
  /\ inv' = [inv EXCEPT ![p] = StartHandler(tool, input)]
  /\ UNCHANGED <<mainpc, tokens, disk, pureIn, pureOut, auth>>

\* the tool result the server writes on stdout, the channel of the MCP
\* transport: the text of the payload, or the message of the error
ToolResult(outcome) ==
  [ch |-> "stdout", line |-> [kind |-> "result", outcome |-> outcome]]

\* the handler's promise has settled: the server sends the tool result (the
\* payload, or the error's message) and the invocation is over; what the
\* invocation has put on the channels stays there until the next call
Deliver(p) ==
  /\ mainpc = "serving"
  /\ inv[p].pc = "done"
  /\ inv' = [inv EXCEPT ![p] =
       [IdleInv EXCEPT !.chan = Append(inv[p].chan, ToolResult(inv[p].outcome))]]
  /\ UNCHANGED <<mainpc, tokens, disk, pureIn, pureOut, auth>>

(***************************************************************************)
(* A response of the remote API reaches doFetch.                           *)
(***************************************************************************)
\* a qbRequest that refreshes and retries for as long as it is answered 401
OnNeedRefreshLoop(i, tk) ==
  LET j == Logged(i, << [ev |-> "refreshTokens"] >>)
  IN  IF NoRefreshToken(tk)
        THEN Throw(j, PlainErr("RefreshUnavailable"))
        ELSE [Logged(j, << [ev |-> "tokenRequest",
                            grant_type |-> "refresh_token",
                            refresh_token |-> RefreshToken(tk)] >>)
              EXCEPT !.pc = "await_token"]

\* a qbRequest that skips its refresh when the bundle's access token is no
\* longer the one its request was sent with, and repeats the request at once
OnNeedRefreshCoalesced(i, tk) ==
  LET sent == i.log[CHOOSE n \in 1..Len(i.log) :
                      i.log[n].ev = "request" /\ i.log[n].phase = i.phase].req
  IN  IF i.attempt = 2
        THEN Throw(i, PlainErr("UnauthorizedAfterRefresh"))
        ELSE IF sent.headers.Authorization.token # AccessToken(tk)
               THEN SendRequest([i EXCEPT !.pc = "await_api", !.attempt = 2],
                                RetryRequest(i, tk))
               ELSE LET j == Logged(i, << [ev |-> "refreshTokens"] >>)
                    IN  IF NoRefreshToken(tk)
                          THEN Throw(j, PlainErr("RefreshUnavailable"))
                          ELSE [Logged(j, << [ev |-> "tokenRequest",
                                              grant_type |-> "refresh_token",
                                              refresh_token |-> RefreshToken(tk)] >>)
                                EXCEPT !.pc = "await_token"]

\* a qbRequest that, having no refresh token, repeats the request as it is
OnNeedRefreshRetryAnyway(i, tk) ==
  IF i.attempt = 2
    THEN Throw(i, PlainErr("UnauthorizedAfterRefresh"))
    ELSE LET j == Logged(i, << [ev |-> "refreshTokens"] >>)
         IN  IF NoRefreshToken(tk)
               THEN SendRequest([j EXCEPT !.pc = "await_api", !.attempt = 2],
                                RetryRequest(j, tk))
               ELSE [Logged(j, << [ev |-> "tokenRequest",
                                   grant_type |-> "refresh_token",
                                   refresh_token |-> RefreshToken(tk)] >>)
                     EXCEPT !.pc = "await_token"]

\* qbRequest after a doFetch that returned { needRefresh: true }: the throw
\* of the second attempt, or refreshTokens() up to its await fetch(...)
OnNeedRefresh(i, tk) ==
  IF i.attempt = 2
    THEN Throw(i, PlainErr("UnauthorizedAfterRefresh"))
    ELSE LET j == Logged(i, << [ev |-> "refreshTokens"] >>)
         IN  IF NoRefreshToken(tk)
               THEN Throw(j, PlainErr("RefreshUnavailable"))
               ELSE [Logged(j, << [ev |-> "tokenRequest",
                                   grant_type |-> "refresh_token",
                                   refresh_token |-> RefreshToken(tk)] >>)
                     EXCEPT !.pc = "await_token"]

\* a doFetch that takes every failure status for an expired token
OnApiResponseRefreshOnAnyError(i, r, tk) ==
  IF ~IsOk(r.status)
    THEN OnNeedRefresh(i, tk)
    ELSE LET text == IF r.text = EmptyText THEN JSONstringify(EmptyObj) ELSE r.text
         IN  IF ~ParseOk(text)
               THEN Throw(i, PlainErr("SyntaxError"))
               ELSE HandlerResume(i, JSONparse(text))

\* an update that answers a rejected write by starting over with a new fetch
OnApiResponseRefetchOnReject(i, r, tk) ==
  IF ~IsOk(r.status)
    THEN IF r.status = 401
           THEN OnNeedRefresh(i, tk)
           ELSE IF i.phase = "write"
                  THEN [StartHandler(i.tool, i.input) EXCEPT !.log = i.log, !.resp = r]
                  ELSE Throw(i, Err("ApiError", r.status, r.text))
    ELSE LET text == IF r.text = EmptyText THEN JSONstringify(EmptyObj) ELSE r.text
         IN  IF ~ParseOk(text)
               THEN Throw(i, PlainErr("SyntaxError"))
               ELSE LET result == JSONparse(text)
                    IN  IF "needRefresh" \in DOMAIN result /\ result.needRefresh
                          THEN OnNeedRefresh(i, tk)
                          ELSE HandlerResume(i, result)

\* doFetch from `await resp.text()` on, and the lines of qbRequest after it
OnApiResponse(i, r, tk) ==
  IF ~IsOk(r.status)
    THEN IF r.status = 401
           THEN OnNeedRefresh(i, tk)
           ELSE Throw(i, Err("ApiError", r.status, r.text))
    ELSE LET text == IF r.text = EmptyText THEN JSONstringify(EmptyObj) ELSE r.text
         IN  IF ~ParseOk(text)
               THEN Throw(i, PlainErr("SyntaxError"))
               ELSE LET result == JSONparse(text)
                    IN  IF "needRefresh" \in DOMAIN result /\ result.needRefresh
                          THEN OnNeedRefresh(i, tk)
                          ELSE HandlerResume(i, result)

ApiRespond(p, r) ==
  /\ mainpc = "serving"
  /\ inv[p].pc = "await_api"
  /\ r \in ApiResponses(inv[p].tool, inv[p].input)
  /\ inv' = [inv EXCEPT ![p] =
       OnApiResponse(ReceiveResponse(inv[p], r), r, tokens)]
  /\ UNCHANGED <<mainpc, tokens, disk, pureIn, pureOut, auth>>

(***************************************************************************)
(* The token endpoint answers refreshTokens.                               *)
(***************************************************************************)
\* a merge that drops what the response does not repeat
RefreshMergeReplace(tk, data) ==
  Obj(IF data.isNull THEN EmptyObj ELSE data.val)

\* a merge in which a field the bundle already has is never overwritten
RefreshMergeFirstWins(tk, data) ==
  Obj(Spread(IF data.isNull THEN EmptyObj ELSE data.val,
             IF tk.isNull THEN EmptyObj ELSE tk.val))

\* tokens = { ...(tokens ?? {}), ...(data ?? {}) }
RefreshMerge(tk, data) ==
  Obj(Spread(IF tk.isNull THEN EmptyObj ELSE tk.val,
             IF data.isNull THEN EmptyObj ELSE data.val))

\* a refresh failure reported like a missing refresh token
RefreshFailureAsUnavailable(r) == PlainErr("RefreshUnavailable")

\* new Error(`Token refresh failed: ${resp.status} - ${text}`)
RefreshFailure(r) == Err("RefreshFailed", r.status, r.text)

\* the token endpoint's answer is a grant that carries an access token
GrantsAccess(r) ==
  /\ IsOk(r.status)
  /\ ParseOk(r.text)
  /\ ~JSONparse(r.text).isNull
  /\ "access_token" \in DOMAIN JSONparse(r.text).val

\* refreshTokens from `if (!resp.ok)` on; how tells the way saveTokens ends
TokenRespond(p, r, how) ==
  /\ mainpc = "serving"
  /\ inv[p].pc = "await_token"
  /\ r \in TokenResponses
  /\ LET i == Logged(inv[p], << [ev |-> "tokenResponse", status |-> r.status,
                                    granted |-> GrantsAccess(r)] >>)
     IN  IF ~IsOk(r.status)
           THEN /\ inv' = [inv EXCEPT ![p] = Throw(i, RefreshFailure(r))]
                /\ UNCHANGED <<tokens, disk>>
           ELSE IF ~ParseOk(r.text)
                  THEN /\ inv' = [inv EXCEPT ![p] = Throw(i, PlainErr("SyntaxError"))]
                       /\ UNCHANGED <<tokens, disk>>
                  ELSE LET merged == RefreshMerge(tokens, JSONparse(r.text))
                           j == Logged(i, << [ev |-> "saveTokens", ok |-> (how = "ok")] >>)
                       IN  /\ tokens' = merged
                           /\ IF how = "ok"
                                THEN /\ disk' = saveTokens(merged)
                                     /\ inv' = [inv EXCEPT ![p] = [j EXCEPT !.pc = "refreshed"]]
                                ELSE /\ disk' = FailedSave(disk, how)
                                     /\ inv' = [inv EXCEPT ![p] =
                                          Throw(j, PlainErr("PersistenceError"))]
  /\ UNCHANGED <<mainpc, pureIn, pureOut, auth>>

\* qbRequest after `await refreshTokens()` has returned: the second doFetch(),
\* with the bundle as it is in memory by then
Retry(p) ==
  /\ mainpc = "serving"
  /\ inv[p].pc = "refreshed"
  /\ inv' = [inv EXCEPT ![p] =
       SendRequest([inv[p] EXCEPT !.pc = "await_api", !.attempt = 2],
                   RetryRequest(inv[p], tokens))]
  /\ UNCHANGED <<mainpc, tokens, disk, pureIn, pureOut, auth>>

(***************************************************************************)
(* The server: main() loads the tokens and serves tool invocations.        *)
(***************************************************************************)
NoPure == [fn |-> "none"]

Init ==
  /\ mainpc = "boot"
  /\ tokens = Null
  /\ auth = NoAuth
  /\ disk \in Disks
  /\ inv = [p \in Procs |-> IdleInv]
  /\ pureIn = NoPure
  /\ pureOut = NoPure

Next ==
  \/ \E mode \in Modes : LoadTokens(mode)
  \/ \E code \in Codes : Callback(code)
  \/ \E r \in ExchangeResponses, how \in SaveOutcomes : ExchangeRespond(r, how)
  \/ AuthReturn
  \/ \E p \in DOMAIN inv, tool \in Tools : \E input \in ToolInputs[tool] : Invoke(p, tool, input)
  \/ \E p \in DOMAIN inv : QbStart(p)
  \/ \E p \in DOMAIN inv : Deliver(p)
  \/ \E p \in DOMAIN inv, r \in AllApiResponses : ApiRespond(p, r)
  \/ \E p \in DOMAIN inv, r \in TokenResponses, how \in SaveOutcomes : TokenRespond(p, r, how)
  \/ \E p \in DOMAIN inv : Retry(p)

Spec == Init /\ [][Next]_vars

(***************************************************************************)
(* The server under the assumption that every network call returns: a      *)
(* handler that is ready to run runs, and an awaited fetch of the API or   *)
(* of the token endpoint is answered.                                      *)
(***************************************************************************)
Fairness ==
  \A p \in Procs :
    /\ WF_vars(QbStart(p))
    /\ WF_vars(\E r \in AllApiResponses : ApiRespond(p, r))
    /\ WF_vars(\E r \in TokenResponses, how \in SaveOutcomes : TokenRespond(p, r, how))
    /\ WF_vars(Retry(p))

\* a bundle with and without a refresh token; a read and an update
LiveBundles ==
  {[access_token |-> "A1", refresh_token |-> "R1", realmId |-> "E1"],
   [access_token |-> "A1"]}

LiveCalls ==
  {[tool |-> "get_customer_by_id", input |-> [id |-> "42"]],
   [tool |-> "set_account_active", input |-> [id |-> "42", active |-> FALSE]]}

InitLive ==
  /\ mainpc = "boot"
  /\ tokens = Null
  /\ auth = NoAuth
  /\ disk \in {saveTokens(Obj(b)) : b \in LiveBundles}
  /\ inv = [p \in Procs |-> IdleInv]
  /\ pureIn = NoPure
  /\ pureOut = NoPure

NextLive ==
  \/ LoadTokens("serve")
  \/ \E p \in DOMAIN inv, c \in LiveCalls : Invoke(p, c.tool, c.input)
  \/ \E p \in DOMAIN inv : QbStart(p)
  \/ \E p \in DOMAIN inv : Deliver(p)
  \/ \E p \in DOMAIN inv, r \in AllApiResponses : ApiRespond(p, r)
  \/ \E p \in DOMAIN inv, r \in TokenResponses, how \in SaveOutcomes : TokenRespond(p, r, how)
  \/ \E p \in DOMAIN inv : Retry(p)

SpecLive == InitLive /\ [][NextLive]_vars /\ Fairness

(***************************************************************************)
(* The URL builder on its own: every endpoint of up to MaxEndpointLen      *)
(* tokens, with and without query strings.                                 *)
(***************************************************************************)
EndpointTokens == {"customer", "/", "42", "?", "operation=update"}

Endpoints == UNION {[1..n -> EndpointTokens] : n \in 0..MaxEndpointLen}

InitUrl ==
  /\ mainpc = "boot"
  /\ tokens = Null
  /\ auth = NoAuth
  /\ disk = [exists |-> FALSE, text |-> EmptyText]
  /\ inv = [p \in Procs |-> IdleInv]
  /\ pureIn \in {[fn |-> "BuildUrl", endpoint |-> e] : e \in Endpoints}
  /\ pureOut = NoPure

UrlStep ==
  /\ pureIn.fn = "BuildUrl"
  /\ pureOut = NoPure
  /\ pureOut' = [fn |-> "BuildUrl", url |-> BuildUrl(pureIn.endpoint)]
  /\ UNCHANGED <<mainpc, auth, tokens, disk, inv, pureIn>>

SpecUrl == InitUrl /\ [][UrlStep]_vars

(***************************************************************************)
(* The query builders of search_customers and search_accounts on their     *)
(* own.  Inputs are as the zod schemas deliver them: activeOnly, orderBy,  *)
(* sort, startPosition and maxResults always present.                      *)
(***************************************************************************)
\* the search inputs fed to the builders: texts for two filters of each tool
StartPositions == {1, 51}
PageSizes == {50}
SearchTexts(tool) ==
  IF tool = "search_accounts"
    THEN Partial([name |-> Texts, accountType |-> Texts])
    ELSE Partial([displayName |-> Texts, email |-> Texts])
OrderBys(tool) ==
  IF tool = "search_accounts"
    THEN {"Id", "Name", "FullyQualifiedName", "Metadata.LastUpdatedTime"}
    ELSE {"Id", "DisplayName", "Metadata.LastUpdatedTime"}
SearchPaging(tool) ==
  [activeOnly : BOOLEAN, orderBy : OrderBys(tool), sort : {"ASC", "DESC"},
   startPosition : StartPositions, maxResults : PageSizes]
SearchInputs(tool) ==
  {[k \in DOMAIN x \cup DOMAIN y |-> IF k \in DOMAIN x THEN x[k] ELSE y[k]] :
     x \in SearchTexts(tool), y \in SearchPaging(tool)}

InitSearch ==
  /\ mainpc = "boot"
  /\ tokens = Null
  /\ auth = NoAuth
  /\ disk = [exists |-> FALSE, text |-> EmptyText]
  /\ inv = [p \in Procs |-> IdleInv]
  /\ pureIn \in {[fn |-> "SearchSql", tool |-> t, input |-> x] :
                   t \in {"search_customers"}, x \in SearchInputs("search_customers")}
               \cup {[fn |-> "SearchSql", tool |-> t, input |-> x] :
                   t \in {"search_accounts"}, x \in SearchInputs("search_accounts")}
  /\ pureOut = NoPure

SearchStep ==
  /\ pureIn.fn = "SearchSql"
  /\ pureOut = NoPure
  /\ pureOut' = [fn |-> "SearchSql",
                 sql |-> SearchSql(SearchEntity(pureIn.tool), SearchFilters(pureIn.tool),
                                   pureIn.input)]
  /\ UNCHANGED <<mainpc, auth, tokens, disk, inv, pureIn>>

SpecSearch == InitSearch /\ [][SearchStep]_vars

(***************************************************************************)
(* doFetch's request on its own, next to the server: the request built for *)
(* every choice of method, body and caller-supplied headers, which no tool *)
(* of the server passes, and the requests of running calls.                *)
(***************************************************************************)
\* one object out of three with disjoint keys
Merge3(x, y, z) ==
  [k \in DOMAIN x \cup DOMAIN y \cup DOMAIN z |->
     IF k \in DOMAIN x THEN x[k] ELSE IF k \in DOMAIN y THEN y[k] ELSE z[k]]

CallerHeaders ==
  {Spread(x, y) :
     x \in Partial([Authorization |-> {[scheme |-> "Basic", token |-> "K1"]}]),
     y \in Partial([k \in {"Content-Type", "X-Trace"} |->
                      IF k = "Content-Type" THEN {"text/plain"} ELSE {"t1"}])}

FetchOptions ==
  {Merge3(m, b, h) :
     m \in Partial([method |-> {"GET", "POST"}]),
     b \in Partial([body |-> {[Id |-> "42"]}]),
     h \in {EmptyObj} \cup {[headers |-> x] : x \in CallerHeaders}}

FetchEndpoints == {<<"customer", "/", "42">>, <<"customer", "?", "operation=update">>}

FetchBundles ==
  {Obj([access_token |-> "A1"]), Obj([access_token |-> "A2", refresh_token |-> "R1"])}

InitFetch ==
  /\ mainpc = "boot"
  /\ tokens = Null
  /\ auth = NoAuth
  /\ disk \in {saveTokens(Obj(b)) : b \in LiveBundles}
  /\ inv = [p \in Procs |-> IdleInv]
  /\ pureIn \in {NoPure}
       \cup {[fn |-> "DoFetch", endpoint |-> e, options |-> o, tk |-> tk] :
               e \in FetchEndpoints, o \in FetchOptions, tk \in FetchBundles}
  /\ pureOut = NoPure

FetchStep ==
  /\ pureIn.fn = "DoFetch"
  /\ pureOut = NoPure
  /\ pureOut' = [fn |-> "DoFetch",
                 req |-> DoFetchRequest(pureIn.endpoint, pureIn.options, pureIn.tk)]
  /\ UNCHANGED <<mainpc, auth, tokens, disk, inv, pureIn>>

NextFetch ==
  \/ pureIn = NoPure /\ NextLive
  \/ FetchStep

SpecFetch == InitFetch /\ [][NextFetch]_vars

(***************************************************************************)
(* The patch mappers and the write body on their own: every patch drawn    *)
(* from the values below is mapped and put into the body of an update, as  *)
(* the update handlers do.  The patches hold falsy values and keys that    *)
(* are no semantic key of the schema.                                      *)
(***************************************************************************)
ForeignKeys ==
  {Merge3(x, y, EmptyObj) :
     x \in Partial([Id |-> {"666"}, SyncToken |-> {"999"}]),
     y \in Partial([sparse |-> {FALSE}])}

MapPatches(tool) ==
  IF tool = "update_customer"
  THEN {Merge3(x, y, z) :
          x \in Partial([displayName |-> {"", "Acme"}, notes |-> {"", "vip"}]),
          y \in Partial([taxExempt |-> BOOLEAN]),
          z \in ForeignKeys}
  ELSE {Merge3(x, y, z) :
          x \in Partial([name |-> {"", "Cash"}, description |-> {"", "till"}]),
          y \in Partial([active |-> BOOLEAN]),
          z \in ForeignKeys}

FetchedRecord == [Id |-> "42", SyncToken |-> "3"]

InitMap ==
  /\ mainpc = "boot"
  /\ tokens = Null
  /\ auth = NoAuth
  /\ disk = [exists |-> FALSE, text |-> EmptyText]
  /\ inv = [p \in Procs |-> IdleInv]
  /\ pureIn \in {[fn |-> "WriteBody", tool |-> "update_customer", sparse |-> b,
                  patch |-> x, existing |-> FetchedRecord] :
                   b \in BOOLEAN, x \in MapPatches("update_customer")}
               \cup {[fn |-> "WriteBody", tool |-> "update_account", sparse |-> b,
                      patch |-> x, existing |-> FetchedRecord] :
                   b \in BOOLEAN, x \in MapPatches("update_account")}
  /\ pureOut = NoPure

MapStep ==
  /\ pureIn.fn = "WriteBody"
  /\ pureOut = NoPure
  /\ LET mapped == IF pureIn.tool = "update_customer"
                   THEN mapCustomerInputToQBO(pureIn.patch)
                   ELSE mapAccountInputToQBO(pureIn.patch)
     IN  pureOut' = [fn |-> "WriteBody", mapped |-> mapped,
                     body |-> UpdateBody(pureIn.existing, pureIn.sparse, mapped)]
  /\ UNCHANGED <<mainpc, auth, tokens, disk, inv, pureIn>>

SpecMap == InitMap /\ [][MapStep]_vars

(***************************************************************************)
(* Two tool invocations in progress at once: the server awaits inside a    *)
(* handler, so a second request is handled while the first waits for the   *)
(* remote API or for the token endpoint.                                   *)
(***************************************************************************)
ConcProcs == {"p1", "p2"}

ConcBundle == [access_token |-> "A1", refresh_token |-> "R1", realmId |-> "E1"]

\* the answers that matter to the race: the entity, an expired token, a
\* fault; a grant with and without a rotated refresh token, a grant with no
\* access token, a rejection
ConcApiResponses ==
  {[status |-> 200, text |-> JSONstringify([Customer |-> [Id |-> "42", SyncToken |-> "3"]])],
   [status |-> 401, text |-> EmptyText],
   [status |-> 500, text |-> FaultText]}

ConcTokenResponses ==
  {[status |-> 200, text |-> JSONstringify(Obj([access_token |-> "A2"]))],
   [status |-> 200, text |-> JSONstringify(Obj([access_token |-> "A2", refresh_token |-> "R2"]))],
   [status |-> 200, text |-> JSONstringify(Obj([refresh_token |-> "R2"]))],
   [status |-> 400, text |-> FaultText]}

InitConc ==
  /\ mainpc = "boot"
  /\ tokens = Null
  /\ auth = NoAuth
  /\ disk = saveTokens(Obj(ConcBundle))
  /\ inv = [p \in ConcProcs |-> IdleInv]
  /\ pureIn = NoPure
  /\ pureOut = NoPure

NextConc ==
  \/ LoadTokens("serve")
  \/ \E p \in DOMAIN inv : Invoke(p, "get_customer_by_id", [id |-> "42"])
  \/ \E p \in DOMAIN inv : QbStart(p)
  \/ \E p \in DOMAIN inv : Deliver(p)
  \/ \E p \in DOMAIN inv, r \in ConcApiResponses : ApiRespond(p, r)
  \/ \E p \in DOMAIN inv, r \in ConcTokenResponses, how \in SaveOutcomes : TokenRespond(p, r, how)
  \/ \E p \in DOMAIN inv : Retry(p)

SpecConc == InitConc /\ [][NextConc]_vars

(***************************************************************************)
(* Reading an invocation's log.  Each qbRequest call of an invocation is   *)
(* one phase: "single" for a read tool, "fetch" then "write" for an update.*)
(***************************************************************************)
Calls(i) ==
  CASE i.phase = "write" -> {"fetch", "write"}
    [] i.phase = "none" -> {}
    [] OTHER -> {i.phase}

\* the qbRequest call of phase ph has returned or thrown
CallOver(i, ph) == i.pc = "done" \/ (ph = "fetch" /\ i.phase = "write")

EventsOf(i, ph, kind) == SelectSeq(i.log, LAMBDA e : e.phase = ph /\ e.ev = kind)

Count(i, ph, kind) == Len(EventsOf(i, ph, kind))

\* the statuses the remote API answered in the call, in order
Statuses(i, ph) ==
  LET rs == EventsOf(i, ph, "response") IN [n \in 1..Len(rs) |-> rs[n].status]

\* the call's refreshTokens() returned: the bundle was merged and saved
RefreshOk(i, ph) ==
  \E n \in 1..Len(i.log) :
    i.log[n].phase = ph /\ i.log[n].ev = "saveTokens" /\ i.log[n].ok

FailedWith(i, kinds) == i.outcome.state = "error" /\ i.outcome.err.kind \in kinds

\* positions of the events of a kind in the whole log
Positions(i, kind) == {n \in 1..Len(i.log) : i.log[n].ev = kind}

\* the bundle holds no usable access token / refresh token
LacksAccessToken(tk) ==
  tk.isNull \/ "access_token" \notin DOMAIN tk.val \/ tk.val.access_token = ""
LacksRefreshToken(tk) ==
  tk.isNull \/ "refresh_token" \notin DOMAIN tk.val \/ tk.val.refresh_token = ""

\* a fetched record (or its absence) that gives no Id or no SyncToken
LacksIdOrSyncToken(existing) ==
  \/ existing.isNull
  \/ "Id" \notin DOMAIN existing.val
  \/ existing.val.Id = ""
  \/ "SyncToken" \notin DOMAIN existing.val

\* what doFetch makes of a 2xx body: parsable, and its JSON value
BodyParses(text) == text = EmptyText \/ text.t = "json"
BodyJson(text) == IF text = EmptyText THEN EmptyObj ELSE text.v

RefreshErrors == {"RefreshUnavailable", "RefreshFailed", "SyntaxError", "PersistenceError"}

(***************************************************************************)
(* C1 as stated: in every qbRequest call that is over and whose first      *)
(* response was 401, refreshTokens was invoked exactly once and the        *)
(* request was issued exactly twice; two 401s end the call with            *)
(* "Unauthorized after token refresh."                                     *)
(***************************************************************************)
C1_Original ==
  \A p \in Procs : \A ph \in Calls(inv[p]) :
    LET i == inv[p]
        st == Statuses(i, ph)
    IN  (CallOver(i, ph) /\ Len(st) >= 1 /\ st[1] = 401) =>
          /\ Count(i, ph, "refreshTokens") = 1
          /\ Count(i, ph, "request") = 2
          /\ (st = <<401, 401>> => FailedWith(i, {"UnauthorizedAfterRefresh"}))

(***************************************************************************)
(* C1 (amended): a qbRequest call never issues more than two API requests  *)
(* nor invokes refreshTokens more than once.  When its first response is   *)
(* 401 it invokes refreshTokens exactly once; the request is repeated,     *)
(* once and unchanged, exactly when that refresh succeeds, and otherwise   *)
(* the call fails with the refresh's error after its single request.  When *)
(* the repeated request is answered 401 too the call fails with            *)
(* "Unauthorized after token refresh." after two requests and one refresh. *)
(***************************************************************************)
C1_RefreshOnceRetryOnce ==
  \A p \in Procs : \A ph \in Calls(inv[p]) :
    LET i == inv[p]
        st == Statuses(i, ph)
        rq == EventsOf(i, ph, "request")
    IN  /\ Len(rq) <= 2
        /\ Count(i, ph, "refreshTokens") <= 1
        /\ Count(i, ph, "tokenRequest") <= 1
        /\ Len(rq) = 2 =>
             /\ RefreshOk(i, ph)
             /\ rq[2].req.url = rq[1].req.url
             /\ rq[2].req.method = rq[1].req.method
             /\ rq[2].req.body = rq[1].req.body
        /\ (Len(st) >= 1 /\ st[1] = 401) =>
             /\ Count(i, ph, "refreshTokens") = 1
             /\ CallOver(i, ph) =>
                  IF RefreshOk(i, ph)
                    THEN Len(rq) = 2
                    ELSE Len(rq) = 1 /\ i.pc = "done" /\ FailedWith(i, RefreshErrors)
        /\ (CallOver(i, ph) /\ st = <<401, 401>>) =>
             /\ i.pc = "done"
             /\ i.outcome = Failed(PlainErr("UnauthorizedAfterRefresh"))
             /\ Len(rq) = 2
             /\ Count(i, ph, "refreshTokens") = 1

\* a call that was answered 401 twice has ended
C1_Witness ==
  \E p \in Procs :
    /\ inv[p].pc = "done"
    /\ Statuses(inv[p], inv[p].phase) = <<401, 401>>
    /\ FailedWith(inv[p], {"UnauthorizedAfterRefresh"})

(***************************************************************************)
(* C2: once the remote API has answered a request of a qbRequest call      *)
(* (the first or the repeated one) with a status that is neither 2xx nor   *)
(* 401, the call has failed with an error carrying that status and that    *)
(* body, and that response is the last thing the call did: no refresh, no  *)
(* further request.                                                        *)
(***************************************************************************)
C2_OtherFailureIsImmediate ==
  \A p \in Procs :
    LET i == inv[p]
    IN  (i.resp.status # 0 /\ ~IsOk(i.resp.status) /\ i.resp.status # 401) =>
          /\ i.pc = "done"
          /\ i.outcome = Failed(Err("ApiError", i.resp.status, i.resp.text))
          /\ i.log[Len(i.log)].ev = "response"
          /\ i.log[Len(i.log)].status = i.resp.status
          /\ \A ph \in Calls(i) : Count(i, ph, "response") = Count(i, ph, "request")

\* the request repeated after a refresh was answered 500 with a body
C2_Witness ==
  \E p \in Procs :
    /\ inv[p].attempt = 2
    /\ inv[p].resp = [status |-> 500, text |-> FaultText]
    /\ inv[p].pc = "done"

(***************************************************************************)
(* C3: with the credentials file missing, loadTokens leaves tokens null    *)
(* and a serving main goes on to serve; and whenever the bundle in memory has no     *)
(* access token, an invocation has made no call to the API or to the token *)
(* endpoint, and one that has ended has failed with "Not authenticated".   *)
(* No request is ever sent without an access token.                        *)
(***************************************************************************)
C3_NotAuthenticatedBeforeNetwork ==
  /\ (~disk.exists /\ auth = NoAuth) => (mainpc \in {"boot", "serving"} /\ tokens = Null)
  /\ \A p \in Procs :
       LET i == inv[p]
       IN  /\ LacksAccessToken(tokens) =>
                /\ i.log = <<>>
                /\ i.pc = "done" => i.outcome = Failed(PlainErr("NotAuthenticated"))
           /\ \A n \in Positions(i, "request") :
                i.log[n].req.headers.Authorization.token \notin {"", "undefined"}

\* the file was missing and a tool call has failed
C3_Witness ==
  \E p \in Procs :
    /\ ~disk.exists
    /\ mainpc = "serving"
    /\ inv[p].pc = "done"
    /\ inv[p].outcome = Failed(PlainErr("NotAuthenticated"))

(***************************************************************************)
(* C4: while the bundle has no refresh_token, no invocation has sent a     *)
(* request to the token endpoint, and a call in which refreshTokens was    *)
(* invoked has failed with the "re-authentication required" error; a       *)
(* request to the token endpoint always carries a refresh token.           *)
(***************************************************************************)
C4_NoRefreshTokenNoCall ==
  \A p \in Procs :
    LET i == inv[p]
    IN  /\ LacksRefreshToken(tokens) =>
             /\ Positions(i, "tokenRequest") = {}
             /\ Positions(i, "refreshTokens") # {} =>
                  /\ i.pc = "done"
                  /\ i.outcome = Failed(PlainErr("RefreshUnavailable"))
        /\ \A n \in Positions(i, "tokenRequest") :
             i.log[n].refresh_token \notin {"", "undefined"}

\* a 401 met a bundle without refresh_token
C4_Witness ==
  \E p \in Procs :
    /\ LacksRefreshToken(tokens)
    /\ Positions(inv[p], "refreshTokens") # {}
    /\ inv[p].outcome = Failed(PlainErr("RefreshUnavailable"))

(***************************************************************************)
(* C5: in every step in which refreshTokens merges and saves a response of *)
(* the token endpoint, each field of the response is in the bundle with    *)
(* the response's value, each other field is in the bundle exactly if it   *)
(* was before and with the value it had, and the credentials file holds    *)
(* the merged bundle.                                                      *)
(***************************************************************************)
BundleFields == {"access_token", "refresh_token", "realmId"}

C5_MergeKeepsAndOverwrites ==
  [][\A p \in Procs, r \in TokenResponses :
       (TokenRespond(p, r, "ok") /\ IsOk(r.status) /\ r.text.t = "json") =>
         LET data == IF r.text.v.isNull THEN EmptyObj ELSE r.text.v.val
         IN  /\ ~tokens'.isNull
             /\ \A f \in BundleFields :
                  IF f \in DOMAIN data
                    THEN f \in DOMAIN tokens'.val /\ tokens'.val[f] = data[f]
                    ELSE IF Has(tokens, f)
                           THEN f \in DOMAIN tokens'.val /\ tokens'.val[f] = tokens.val[f]
                           ELSE f \notin DOMAIN tokens'.val
             /\ disk'.exists
             /\ disk'.text = [t |-> "json", v |-> tokens']
    ]_vars

\* a refresh rotated the refresh token and kept the other fields
C5_Witness ==
  /\ tokens = Obj([access_token |-> "A1", refresh_token |-> "R2", realmId |-> "E1"])
  /\ disk = [exists |-> TRUE, text |-> [t |-> "json", v |-> tokens]]
  /\ \E p \in Procs : RefreshOk(inv[p], inv[p].phase) /\ inv[p].pc = "await_api"

(***************************************************************************)
(* C6: in an update call the write body is built, and the POST issued,     *)
(* only after the fetch was answered 2xx and after every GET of the call;  *)
(* when the handler has just built the body, its Id and SyncToken are      *)
(* those of the record in the response the fetch has just received; and    *)
(* every POST carries that body.                                           *)
(***************************************************************************)
C6_WriteUsesThisFetch ==
  \A p \in Procs :
    LET i == inv[p]
        log == i.log
    IN  i.tool \in UpdateTools =>
          /\ \A b \in Positions(i, "body") :
               /\ \E m \in 1..(b - 1) :
                    log[m].ev = "response" /\ log[m].phase = "fetch" /\ IsOk(log[m].status)
               /\ \A m \in Positions(i, "request") : log[m].req.method = "GET" => m < b
               /\ log[b].body = i.options.body
               /\ log[b].body.Id = i.existing.val.Id
               /\ log[b].body.SyncToken = i.existing.val.SyncToken
          /\ \A n \in Positions(i, "request") :
               log[n].req.method = "POST" =>
                 /\ \E b \in Positions(i, "body") : b < n
                 /\ log[n].req.body = [t |-> "json", v |-> i.options.body]
          /\ (i.phase = "write" /\ i.pc = "qb_start") =>
               LET fetched == BodyJson(i.resp.text)[WrapperKey(i.tool)]
               IN  /\ i.existing = Obj(fetched)
                   /\ i.options.body.Id = fetched.Id
                   /\ i.options.body.SyncToken = fetched.SyncToken

\* an update's POST is in flight with the SyncToken "3" its fetch returned
C6_Witness ==
  \E p \in Procs :
    /\ inv[p].tool = "update_customer"
    /\ inv[p].phase = "write"
    /\ inv[p].pc = "await_api"
    /\ inv[p].existing.val.SyncToken = "3"
    /\ inv[p].options.body.SyncToken = "3"

(***************************************************************************)
(* C7: an update call builds one write body at most and never fetches      *)
(* after it has written; once the remote service has answered the write    *)
(* with a status that is neither 2xx nor 401, that response is the last    *)
(* thing the call did and the call has failed with an error carrying the   *)
(* response's status and body.                                             *)
(***************************************************************************)
C7_AtMostOneCycle ==
  \A p \in Procs :
    LET i == inv[p]
        log == i.log
    IN  i.tool \in UpdateTools =>
          /\ Cardinality(Positions(i, "body")) <= 1
          /\ \A m, n \in Positions(i, "request") :
               (log[m].req.method = "POST" /\ log[n].req.method = "GET") => n < m
          /\ \A n \in Positions(i, "response") :
               (log[n].phase = "write" /\ ~IsOk(log[n].status) /\ log[n].status # 401) =>
                 /\ n = Len(log)
                 /\ i.pc = "done"
                 /\ i.resp.status = log[n].status
                 /\ i.outcome = Failed(Err("ApiError", i.resp.status, i.resp.text))

\* the write of an update was rejected with 400 and a fault body
C7_Witness ==
  \E p \in Procs :
    /\ inv[p].tool \in UpdateTools
    /\ inv[p].phase = "write"
    /\ inv[p].pc = "done"
    /\ inv[p].resp = [status |-> 400, text |-> FaultText]

(***************************************************************************)
(* C8 as stated: an update call whose fetch the remote service answered    *)
(* for an id that does not resolve (a 400 fault, or a 2xx without the      *)
(* entity), or answered with a record lacking Id or SyncToken, has failed  *)
(* with "Could not fetch existing ..." and issued no write.                *)
(***************************************************************************)
AnsweredNotFound(i) ==
  /\ i.input.id \notin RemoteIds
  /\ \/ i.resp.status = 400
     \/ IsOk(i.resp.status) /\ i.resp.text \in {EmptyText, [t |-> "json", v |-> EmptyObj]}

AnsweredUnusable(i) ==
  /\ IsOk(i.resp.status)
  /\ BodyParses(i.resp.text)
  /\ "needRefresh" \notin DOMAIN BodyJson(i.resp.text)
  /\ LET data == BodyJson(i.resp.text)
     IN  LacksIdOrSyncToken(IF WrapperKey(i.tool) \in DOMAIN data
                              THEN Obj(data[WrapperKey(i.tool)]) ELSE Null)

NoWrite(i) ==
  /\ Positions(i, "body") = {}
  /\ \A n \in Positions(i, "request") : i.log[n].req.method = "GET"

C8_Original ==
  \A p \in Procs :
    LET i == inv[p]
    IN  (/\ i.tool \in UpdateTools
         /\ i.pc = "done"
         /\ i.phase = "fetch"
         /\ AnsweredNotFound(i) \/ AnsweredUnusable(i)) =>
          /\ i.outcome = Failed(PlainErr("CouldNotFetch"))
          /\ NoWrite(i)

(***************************************************************************)
(* C8 (amended): an update call whose fetch was answered 2xx without the   *)
(* entity, or with a record lacking a non-empty Id or a SyncToken, has     *)
(* failed with "Could not fetch existing ..."; one whose fetch was         *)
(* answered with a status that is neither 2xx nor 401 (as for an id that   *)
(* does not resolve) has failed with the API error carrying that status    *)
(* and body; an update call that ended in its fetch step issued no write,  *)
(* and a write body is only ever built from a record with a non-empty Id   *)
(* and a SyncToken.                                                        *)
(***************************************************************************)
C8_FetchFailureNoWrite ==
  \A p \in Procs :
    LET i == inv[p]
    IN  i.tool \in UpdateTools =>
          /\ (i.pc = "done" /\ i.phase = "fetch") =>
               /\ NoWrite(i)
               /\ i.outcome.state = "error"
               /\ AnsweredUnusable(i) => i.outcome = Failed(PlainErr("CouldNotFetch"))
               /\ (i.resp.status # 0 /\ ~IsOk(i.resp.status) /\ i.resp.status # 401) =>
                    i.outcome = Failed(Err("ApiError", i.resp.status, i.resp.text))
               /\ FailedWith(i, {"CouldNotFetch"}) => AnsweredUnusable(i)
          /\ i.phase = "write" =>
               /\ ~LacksIdOrSyncToken(i.existing)
               /\ ~FailedWith(i, {"CouldNotFetch"})
          /\ Positions(i, "body") # {} => i.phase = "write"

\* the fetched record had an Id and no SyncToken
C8_Witness ==
  \E p \in Procs :
    /\ inv[p].tool = "update_account"
    /\ inv[p].pc = "done"
    /\ inv[p].existing = Obj([Id |-> "42"])
    /\ inv[p].outcome = Failed(PlainErr("CouldNotFetch"))
    /\ NoWrite(inv[p])

(***************************************************************************)
(* C9 as stated: the write body of an update holds exactly Id and          *)
(* SyncToken of the fetched record, sparse: true exactly if sparse was     *)
(* requested (set_*_active always requests it), and one remote-schema      *)
(* field for every patch key the caller supplied.                          *)
(***************************************************************************)
QboKey(table, k) == table[CHOOSE n \in 1..Len(table) : table[n].in = k].out

ExpectedBodyKeys(i) ==
  {"Id", "SyncToken"}
    \cup (CASE i.tool = "update_customer" ->
                 (IF SparseOf(i.input) THEN {"sparse"} ELSE {})
                   \cup {QboKey(CustomerTable, k) : k \in DOMAIN i.input.patch}
            [] i.tool = "update_account" ->
                 (IF SparseOf(i.input) THEN {"sparse"} ELSE {})
                   \cup {QboKey(AccountTable, k) : k \in DOMAIN i.input.patch}
            [] OTHER -> {"sparse", "Active"})

C9_Original ==
  \A p \in Procs :
    LET i == inv[p]
    IN  \A n \in Positions(i, "body") :
          LET body == i.log[n].body
          IN  /\ DOMAIN body = ExpectedBodyKeys(i)
              /\ body.Id = i.existing.val.Id
              /\ body.SyncToken = i.existing.val.SyncToken
              /\ "sparse" \in DOMAIN body => body.sparse = TRUE

(***************************************************************************)
(* C10: the URL of an endpoint is the base URL, the endpoint, one          *)
(* separator and minorversion=75; the separator is "&" when the endpoint   *)
(* holds a "?" and "?" when it holds none, so the URL has exactly one "?"  *)
(* more than the endpoint in the second case and none more in the first.   *)
(***************************************************************************)
CountOf(seq, c) == Cardinality({n \in 1..Len(seq) : seq[n] = c})

C10_MinorVersionSeparator ==
  pureOut.fn = "BuildUrl" =>
    LET e == pureIn.endpoint
        u == pureOut.url
        hasQuery == \E n \in 1..Len(e) : e[n] = "?"
    IN  /\ Len(u) = Len(e) + 8
        /\ SubSeq(u, 1, 4) = <<QB_BASE, "/", REALM_ID, "/">>
        /\ SubSeq(u, 5, 4 + Len(e)) = e
        /\ u[Len(e) + 5] = (IF hasQuery THEN "&" ELSE "?")
        /\ SubSeq(u, Len(e) + 6, Len(e) + 8) = <<"minorversion", "=", "75">>
        /\ CountOf(u, "?") = CountOf(e, "?") + (IF hasQuery THEN 0 ELSE 1)

\* the URL of customer?operation=update has been built
C10_Witness ==
  /\ pureOut.fn = "BuildUrl"
  /\ pureIn.endpoint = <<"customer", "?", "operation=update">>
  /\ pureOut.url[8] = "&"

(***************************************************************************)
(* C11: with two invocations in progress, a 401 sends each invocation that *)
(* finds a refresh token into its own call of the token endpoint, whatever *)
(* the other invocation is doing; and when a refresh completes after the   *)
(* other invocation's refresh has completed, the bundle in memory takes    *)
(* every field of this last response, keeps the other fields as the        *)
(* earlier refresh left them, and the credentials file holds that bundle.  *)
(***************************************************************************)
C11_UnsynchronizedLastWriterWins ==
  [][\A p \in ConcProcs :
       /\ \A r \in ConcApiResponses :
            (ApiRespond(p, r) /\ r.status = 401 /\ inv[p].attempt = 1
               /\ ~LacksRefreshToken(tokens)) =>
              /\ inv'[p].pc = "await_token"
              /\ Len(inv'[p].log) = Len(inv[p].log) + 3
              /\ inv'[p].log[Len(inv'[p].log)].ev = "tokenRequest"
       /\ \A r \in ConcTokenResponses :
            (/\ TokenRespond(p, r, "ok") /\ IsOk(r.status) /\ r.text.t = "json"
             /\ \E q \in ConcProcs \ {p} : RefreshOk(inv[q], "single")) =>
              LET data == IF r.text.v.isNull THEN EmptyObj ELSE r.text.v.val
              IN  /\ \A f \in DOMAIN data : Has(tokens', f) /\ tokens'.val[f] = data[f]
                  /\ \A f \in BundleFields \ DOMAIN data :
                       /\ Has(tokens', f) <=> Has(tokens, f)
                       /\ Has(tokens, f) => tokens'.val[f] = tokens.val[f]
                  /\ disk' = [exists |-> TRUE, text |-> [t |-> "json", v |-> tokens']]
    ]_vars

\* p2's refresh has completed and rotated the refresh token while p1's own
\* refresh, sent with the old refresh token, is still in flight
C11_Witness ==
  /\ DOMAIN inv = ConcProcs
  /\ inv["p1"].pc = "await_token"
  /\ \E n \in Positions(inv["p1"], "tokenRequest") : inv["p1"].log[n].refresh_token = "R1"
  /\ RefreshOk(inv["p2"], "single")
  /\ tokens.val.refresh_token = "R2"
  /\ disk = [exists |-> TRUE, text |-> [t |-> "json", v |-> tokens]]

(***************************************************************************)
(* C12: the handler of a callback without a code rejects the pending       *)
(* promise and starts no exchange, and leaves the bundle in memory and the *)
(* credentials file as they were.  Once the promise is rejected that way   *)
(* it stays rejected, no answer of the token endpoint is handled any more, *)
(* bundle and file never change again, and the only way on for main() is   *)
(* the exit with failure, after which nothing happens.  A request that     *)
(* arrived together with the rejected one is still dispatched before the   *)
(* exit, and one with a code starts an exchange whose answer nobody reads. *)
(***************************************************************************)
C12_NoCodeIsTerminal ==
  [][/\ Callback("") =>
          /\ auth.promise = "pending" => auth'.settledBy = "callback"
          /\ auth'.promise = "rejected"
          /\ auth'.exchanges = auth.exchanges
          /\ auth'.inflight = auth.inflight
          /\ tokens' = tokens
          /\ disk' = disk
     /\ auth.settledBy = "callback" =>
          /\ auth'.promise = "rejected"
          /\ auth'.settles = 1
          /\ auth'.inflight >= auth.inflight
          /\ tokens' = tokens
          /\ disk' = disk
          /\ mainpc' \in {"auth", "fatal"}
     /\ mainpc = "fatal" => FALSE
    ]_vars

\* the first callback had no code and a second one, with a code, came with
\* it: its exchange was started, the process ended with failure, the loaded
\* bundle and its file are intact
C12_Witness ==
  /\ auth.settledBy = "callback"
  /\ auth.promise = "rejected"
  /\ auth.callbacks = 2
  /\ auth.exchanges = 1
  /\ auth.inflight = 1
  /\ auth.openAtSettle
  /\ mainpc = "fatal"
  /\ ~tokens.isNull
  /\ disk = [exists |-> TRUE, text |-> [t |-> "json", v |-> tokens]]

(***************************************************************************)
(* C13 as stated: when the token endpoint answers the code exchange with a *)
(* non-2xx status, the authorization is rejected and neither the bundle in *)
(* memory nor the credentials file changes.                                *)
(***************************************************************************)
C13_Original ==
  [][\A r \in ExchangeResponses :
       (ExchangeRespond(r, "ok") /\ ~IsOk(r.status)) =>
         /\ auth'.promise = "rejected"
         /\ tokens' = tokens
         /\ disk' = disk
    ]_vars

(***************************************************************************)
(* C14 as stated: whatever callbacks arrive, at most one code exchange is  *)
(* sent to the token endpoint and the promise is settled at most once.     *)
(***************************************************************************)
C14_Original ==
  /\ auth.exchanges <= 1
  /\ auth.settles <= 1

(***************************************************************************)
(* C15: an invocation in which a step failed (the executor refused for     *)
(* want of an access token, the API answered with a status that is neither *)
(* 2xx nor 401 or with 401 twice, the refresh was unavailable, rejected or *)
(* could not be saved, the fetch gave no usable record) is over, its       *)
(* result is the error of that step and carries no payload, and the failed *)
(* step is the last thing it did; an invocation with a payload had no      *)
(* failed step; and an invocation that has failed does nothing more.       *)
(***************************************************************************)
LastEvent(i) == i.log[Len(i.log)]

\* the log shows a step that failed, and the kind of error it raises
FailedStep(i, n) ==
  LET e == i.log[n]
  IN  \/ e.ev = "response" /\ ~IsOk(e.status) /\ e.status # 401
      \/ e.ev = "response" /\ e.status = 401 /\ e.attempt = 2
      \/ e.ev = "tokenResponse" /\ ~IsOk(e.status)
      \/ e.ev = "saveTokens" /\ ~e.ok

ErrorOfLast(i) ==
  IF i.log = <<>>
    THEN {"NotAuthenticated"}
    ELSE LET e == LastEvent(i)
         IN  CASE e.ev = "response" /\ e.status = 401 -> {"UnauthorizedAfterRefresh"}
               [] e.ev = "response" /\ ~IsOk(e.status) /\ e.status # 401 -> {"ApiError"}
               [] e.ev = "response" /\ IsOk(e.status) ->
                    {"SyntaxError", "UnauthorizedAfterRefresh", "CouldNotFetch"}
               [] e.ev = "refreshTokens" -> {"RefreshUnavailable"}
               [] e.ev = "tokenResponse" -> {"RefreshFailed", "SyntaxError"}
               [] e.ev = "saveTokens" -> {"PersistenceError"}
               [] e.ev = "body" -> {"NotAuthenticated"}
               [] OTHER -> {}

C15_State ==
  \A p \in Procs :
    LET i == inv[p]
    IN  /\ i.pc = "done" <=> i.outcome.state \in {"ok", "error"}
        /\ i.outcome.state = "error" =>
             /\ DOMAIN i.outcome = {"state", "err"}
             /\ i.outcome.err.kind \in ErrorOfLast(i)
        /\ (\E n \in 1..Len(i.log) : FailedStep(i, n)) =>
             /\ i.outcome.state = "error"
             /\ FailedStep(i, Len(i.log))
             /\ \A n \in 1..(Len(i.log) - 1) : ~FailedStep(i, n)
        /\ i.outcome.state = "ok" =>
             /\ DOMAIN i.outcome = {"state", "payload"}
             /\ i.phase \in {"single", "write"}
             /\ i.log # <<>>
             /\ LastEvent(i).ev = "response" /\ IsOk(LastEvent(i).status)
             /\ i.tool \in UpdateTools => ~LacksIdOrSyncToken(i.existing)

C15_ErrorsEndTheInvocation ==
  /\ []C15_State
  /\ [][\A p \in Procs :
          inv[p].outcome.state = "error" =>
            \/ inv'[p] = inv[p]
            \/ inv'[p] = [IdleInv EXCEPT
                            !.chan = Append(inv[p].chan,
                                            [ch |-> "stdout",
                                             line |-> [kind |-> "result",
                                                       outcome |-> inv[p].outcome]])]
         ]_vars

\* the fetch of an update succeeded, the refresh during the write could not
\* be saved: the call has failed and returns nothing of what it fetched
C15_Witness ==
  \E p \in Procs :
    /\ inv[p].phase = "write"
    /\ ~inv[p].existing.isNull
    /\ inv[p].outcome = Failed(PlainErr("PersistenceError"))

(***************************************************************************)
(* C16: when the token endpoint answers a refresh with a non-2xx status,   *)
(* the call fails in that step with the "Token refresh failed" error made  *)
(* of that status and that body, and memory and file are unchanged; the    *)
(* "No refresh_token available" error is another error, raised only before *)
(* any request to the token endpoint.                                      *)
(***************************************************************************)
C16_State ==
  \A p \in Procs :
    LET i == inv[p]
    IN  /\ FailedWith(i, {"RefreshFailed"}) =>
             /\ i.log # <<>>
             /\ LastEvent(i).ev = "tokenResponse"
             /\ i.outcome.err.status = LastEvent(i).status
             /\ ~IsOk(i.outcome.err.status)
        /\ FailedWith(i, {"RefreshUnavailable"}) =>
             /\ i.log # <<>>
             /\ LastEvent(i).ev = "refreshTokens"
             /\ i.outcome.err = PlainErr("RefreshUnavailable")
             /\ \A n \in Positions(i, "tokenRequest") : i.log[n].phase # i.phase

C16_RefreshFailedCarriesStatusAndBody ==
  /\ []C16_State
  /\ [][\A p \in Procs, r \in TokenResponses, how \in SaveOutcomes :
          (TokenRespond(p, r, how) /\ ~IsOk(r.status)) =>
            /\ inv'[p].pc = "done"
            /\ inv'[p].outcome =
                 Failed([kind |-> "RefreshFailed", status |-> r.status, text |-> r.text])
            /\ tokens' = tokens
            /\ disk' = disk]_vars

\* a refresh was rejected with 400 and a fault body
C16_Witness ==
  \E p \in Procs :
    inv[p].outcome =
      Failed([kind |-> "RefreshFailed", status |-> 400, text |-> FaultText])

(***************************************************************************)
(* C17: main's loadTokens has three outcomes.  File missing: tokens stays  *)
(* null and main goes on.  File present and JSON: tokens is the value of   *)
(* the file and main goes on.  File present and not JSON: the process ends *)
(* with failure, in serve mode and in auth mode alike, with nothing loaded *)
(* and neither server nor listener started.                                *)
(***************************************************************************)
C17_LoadOutcomes ==
  [][\A mode \in Modes :
       LoadTokens(mode) =>
         /\ ~disk.exists =>
              /\ tokens' = Null
              /\ mainpc' = (IF mode = "auth" THEN "auth" ELSE "serving")
         /\ (disk.exists /\ disk.text.t = "json") =>
              /\ tokens' = disk.text.v
              /\ mainpc' = (IF mode = "auth" THEN "auth" ELSE "serving")
         /\ (disk.exists /\ disk.text.t # "json") =>
              /\ mainpc' = "fatal"
              /\ tokens' = Null
              /\ auth' = NoAuth
         /\ disk' = disk
    ]_vars

\* a corrupt file has ended the process before anything was started
C17_Witness ==
  /\ mainpc = "fatal"
  /\ auth = NoAuth
  /\ disk = [exists |-> TRUE, text |-> GarbageText]
  /\ tokens = Null

(***************************************************************************)
(* C18: provided every network call returns, every qbRequest call that has *)
(* begun comes to its end (it returns to the handler or throws); and at    *)
(* every moment a call has sent at most two API requests, has invoked      *)
(* refreshTokens at most once and has sent at most one request to the      *)
(* token endpoint, also when every API request is answered 401.            *)
(***************************************************************************)
C18_Bounded ==
  \A p \in Procs : \A ph \in Calls(inv[p]) :
    /\ Count(inv[p], ph, "request") <= 2
    /\ Count(inv[p], ph, "response") <= 2
    /\ Count(inv[p], ph, "refreshTokens") <= 1
    /\ Count(inv[p], ph, "tokenRequest") <= 1
    /\ CallOver(inv[p], ph) =>
         \/ inv[p].outcome.state = "error"
         \/ /\ Count(inv[p], ph, "response") >= 1
            /\ LET rs == Statuses(inv[p], ph) IN IsOk(rs[Len(rs)])

C18_EveryCallTerminates ==
  /\ []C18_Bounded
  /\ \A p \in Procs : \A ph \in {"single", "fetch", "write"} :
       (inv[p].phase = ph /\ inv[p].pc \in {"qb_start", "await_api", "await_token"})
         ~> CallOver(inv[p], ph)

\* a call whose two requests were both answered 401 is over
C18_Witness ==
  \E p \in Procs :
    /\ inv[p].pc = "done"
    /\ Statuses(inv[p], inv[p].phase) = <<401, 401>>
    /\ Count(inv[p], inv[p].phase, "refreshTokens") = 1
    /\ inv[p].outcome = Failed(PlainErr("UnauthorizedAfterRefresh"))

(***************************************************************************)
(* C19 as stated: no step makes a bundle that is in memory absent, and no  *)
(* step removes the credentials file; the bundle in memory changes only    *)
(* when main loads the file, when an authorization stores the answer of    *)
(* the exchange, or when a refresh merges, and the file changes only in a  *)
(* saveTokens of an authorization or of a refresh.  The callback handler   *)
(* assigns whatever JSON value the token endpoint answered: after the      *)
(* answer `null` the bundle in memory is absent and the file holds "null", *)
(* so the statement fails.  (The merge of a refresh guards against a null  *)
(* answer, and nothing ever removes the file.)                             *)
(***************************************************************************)
C19_Original ==
  [][/\ ~tokens.isNull => ~tokens'.isNull
     /\ disk.exists => disk'.exists
     /\ tokens' # tokens =>
          \/ \E mode \in Modes : LoadTokens(mode)
          \/ \E r \in ExchangeResponses, how \in SaveOutcomes : ExchangeRespond(r, how)
          \/ \E p \in Procs, r \in TokenResponses, how \in SaveOutcomes : TokenRespond(p, r, how)
    ]_vars

(***************************************************************************)
(* Reading a generated query: the filter lies between the first eight      *)
(* tokens (SELECT * FROM <entity> WHERE Active = <flag>) and the last      *)
(* seven (ORDER BY ... MAXRESULTS n).                                      *)
(***************************************************************************)
LikeKeys == {"displayName", "companyName", "givenName", "familyName", "email", "phone", "name"}

TokenCount(seq, c) == Cardinality({n \in 1..Len(seq) : seq[n] = c})

Occurs(block, seq) ==
  \E k \in 0..(Len(seq) - Len(block)) : SubSeq(seq, k + 1, k + Len(block)) = block

\* AND <column> LIKE '<escaped value>%'   /   AND <column> = '<escaped value>'
AndLike(column, v) == <<"AND", column, "LIKE", "'">> \o esc(v) \o <<"%", "'">>
AndEqual(column, v) == <<"AND", column, "=", "'">> \o esc(v) \o <<"'">>

RECURSIVE TotalLen(_)
TotalLen(blocks) ==
  IF blocks = {} THEN 0
  ELSE LET b == CHOOSE x \in blocks : TRUE IN Len(b) + TotalLen(blocks \ {b})

\* the query is: head with the Active condition, the given blocks in some
\* order and nothing else, then ordering and paging as requested
QueryIs(sql, tool, input, blocks) ==
  LET n == Len(sql)
      mid == SubSeq(sql, 9, n - 7)
  IN  /\ n >= 15
      /\ SubSeq(sql, 1, 8) =
           <<"SELECT", "*", "FROM", SearchEntity(tool), "WHERE",
             "Active", "=", IF input.activeOnly THEN "true" ELSE "false">>
      /\ SubSeq(sql, n - 6, n) =
           <<"ORDER BY", input.orderBy, input.sort,
             "STARTPOSITION", ToString(input.startPosition),
             "MAXRESULTS", ToString(input.maxResults)>>
      /\ \A b \in blocks : Occurs(b, mid)
      /\ Len(mid) = TotalLen(blocks)
      /\ TokenCount(mid, "AND") = Cardinality(blocks)
      /\ TokenCount(sql, "OR") = 0

SuppliedFilters(tool, input) ==
  {n \in 1..Len(SearchFilters(tool)) : SearchFilters(tool)[n].in \in DOMAIN input}

(***************************************************************************)
(* C20 as stated: the filter of every search query is Active = <flag>      *)
(* followed by one AND <column> LIKE '<value>%' for every text filter the  *)
(* caller supplied, then ORDER BY, STARTPOSITION and MAXRESULTS as         *)
(* requested.                                                              *)
(***************************************************************************)
C20_Original ==
  pureOut.fn = "SearchSql" =>
    LET fs == SearchFilters(pureIn.tool)
        x == pureIn.input
    IN  QueryIs(pureOut.sql, pureIn.tool, x,
                {AndLike(fs[n].column, x[fs[n].in]) : n \in SuppliedFilters(pureIn.tool, x)})

(***************************************************************************)
(* C20 (amended): the filter of every search query is Active = <flag>      *)
(* followed by one AND-ed condition for every text filter the caller       *)
(* supplied with a non-empty value (an empty text gives no condition): a   *)
(* prefix match LIKE '<value>%' for the customer filters and for an        *)
(* account's name, an equality = '<value>' for an account's accountType,   *)
(* accountSubType and classification, the value with a backslash before    *)
(* each single quote; then ORDER BY, STARTPOSITION and MAXRESULTS as       *)
(* requested.                                                              *)
(***************************************************************************)
C20_SearchQuery ==
  pureOut.fn = "SearchSql" =>
    LET fs == SearchFilters(pureIn.tool)
        x == pureIn.input
        given == {n \in SuppliedFilters(pureIn.tool, x) : x[fs[n].in] # <<>>}
    IN  QueryIs(pureOut.sql, pureIn.tool, x,
                {IF fs[n].in \in LikeKeys
                   THEN AndLike(fs[n].column, x[fs[n].in])
                   ELSE AndEqual(fs[n].column, x[fs[n].in]) : n \in given})

\* displayName = "Acme", activeOnly = true:
\* WHERE Active = true AND DisplayName LIKE 'Acme%'
C20_Witness ==
  /\ pureOut.fn = "SearchSql"
  /\ pureIn.tool = "search_customers"
  /\ "email" \notin DOMAIN pureIn.input
  /\ Len(pureOut.sql) = 22
  /\ SubSeq(pureOut.sql, 5, 16) =
       <<"WHERE", "Active", "=", "true", "AND", "DisplayName", "LIKE", "'", "Acme", "%", "'",
         "ORDER BY">>

(***************************************************************************)
(* Reading the channels of an invocation.                                  *)
(***************************************************************************)
\* positions on the channels where the network is used in direction dir
NetAt(i, dir) ==
  {n \in 1..Len(i.chan) : i.chan[n].ch = "net" /\ i.chan[n].line.kind = dir}

\* the k for which position n is the k-th element of the set of positions
Rank(positions, n) == Cardinality({m \in positions : m <= n})

\* positions of the lines on stdout, the channel of the tool results
ResultAt(i) == {n \in 1..Len(i.chan) : i.chan[n].ch = "stdout"}

\* the invocation's tool result has been sent
Delivered(i) == i.pc = "idle" /\ i.chan # <<>>

\* every call of the API is directly preceded by a stderr line with the URL
\* of that request and every response directly followed by a stderr line
\* with its status and one with its body
C21_Diagnostics ==
  \A p \in Procs :
    LET i == inv[p]
        c == i.chan
        reqs == SelectSeq(i.log, LAMBDA e : e.ev = "request")
        resps == SelectSeq(i.log, LAMBDA e : e.ev = "response")
    IN  /\ ~Delivered(i) =>
             /\ Cardinality(NetAt(i, "request")) = Len(reqs)
             /\ Cardinality(NetAt(i, "response")) = Len(resps)
        /\ \A n \in NetAt(i, "request") :
             /\ n > 1
             /\ c[n - 1].ch = "stderr"
             /\ c[n - 1].line.kind = "Requesting"
             /\ ~Delivered(i) =>
                  c[n - 1].line.url = reqs[Rank(NetAt(i, "request"), n)].req.url
        /\ \A n \in NetAt(i, "response") :
             /\ n + 2 <= Len(c)
             /\ c[n + 1].ch = "stderr"
             /\ c[n + 1].line.kind = "status"
             /\ ~Delivered(i) =>
                  c[n + 1].line.status = resps[Rank(NetAt(i, "response"), n)].status
             /\ c[n + 2].ch = "stderr"
             /\ c[n + 2].line.kind = "body"
             /\ (n + 2 = Len(c) /\ ~Delivered(i)) => c[n + 2].line.text = i.resp.text
        /\ Len(c) = 2 * Cardinality(NetAt(i, "request"))
                      + 3 * Cardinality(NetAt(i, "response"))
                      + Cardinality(ResultAt(i))

\* stdout carries nothing but the tool result: one line, the last, written
\* when the invocation is over
C21_ResultOnly ==
  \A p \in Procs :
    LET i == inv[p]
        c == i.chan
    IN  /\ \A n \in ResultAt(i) :
             /\ n = Len(c)
             /\ i.pc = "idle"
             /\ c[n].line.kind = "result"
             /\ c[n].line.outcome.state \in {"ok", "error"}
        /\ Delivered(i) => Len(c) \in ResultAt(i)

\* the status and the body that the diagnostic lines after position m show
StatusAfter(c, m) == c[m + 1].line.status
BodyAfter(c, m) == c[m + 2].line.text

\* the tool result repeats the status and the body of a response of the API
RepeatsResponse(i, outcome) ==
  \E m \in NetAt(i, "response") :
    \/ /\ outcome.state = "error"
       /\ outcome.err.status = StatusAfter(i.chan, m)
       /\ outcome.err.text = BodyAfter(i.chan, m)
    \/ /\ outcome.state = "ok"
       /\ ParseOk(BodyAfter(i.chan, m))
       /\ outcome.payload = Obj(JSONparse(BodyAfter(i.chan, m)))

C21_ResultContent ==
  \A p \in Procs :
    LET i == inv[p]
        c == i.chan
    IN  Delivered(i) =>
          LET out == c[Len(c)].line.outcome
              last == CHOOSE m \in NetAt(i, "response") :
                        \A k \in NetAt(i, "response") : k <= m
          IN  /\ (out.state = "error" /\ out.err.kind = "ApiError") =>
                   /\ NetAt(i, "response") # {}
                   /\ Len(c) = last + 3
                   /\ out.err.status = StatusAfter(c, last)
                   /\ out.err.text = BodyAfter(c, last)
                   /\ ~IsOk(out.err.status) /\ out.err.status # 401
              /\ (out.state = "error" /\ out.err.kind \notin {"ApiError", "RefreshFailed"}) =>
                   /\ out.err.status = 0
                   /\ out.err.text = EmptyText
              /\ out.state = "ok" =>
                   /\ NetAt(i, "response") # {}
                   /\ Len(c) = last + 3
                   /\ IsOk(StatusAfter(c, last))

MapTable == IF pureIn.tool = "update_customer" THEN CustomerTable ELSE AccountTable

SemanticKeys(table) == {table[n].in : n \in 1..Len(table)}

\* C22 as stated: the mapped patch has exactly one remote-schema field for
\* every semantic key of the input, whatever its value
C22_Original ==
  pureOut.fn = "WriteBody" =>
    DOMAIN pureOut.mapped =
      {QboKey(MapTable, k) : k \in DOMAIN pureIn.patch \cap SemanticKeys(MapTable)}

(***************************************************************************)
(* C30.  No patch overrides the concurrency fields of the write body: the  *)
(* mapped patch never holds Id, SyncToken or sparse, so in the body Id and *)
(* SyncToken are those of the fetched record and sparse is present, and    *)
(* true, exactly when the sparse parameter is true.                        *)
(***************************************************************************)
C30_ConcurrencyFieldsProtected ==
  pureOut.fn = "WriteBody" =>
    /\ DOMAIN pureOut.mapped \cap {"Id", "SyncToken", "sparse"} = {}
    /\ pureOut.body.Id = pureIn.existing.Id
    /\ pureOut.body.SyncToken = pureIn.existing.SyncToken
    /\ ("sparse" \in DOMAIN pureOut.body) = pureIn.sparse
    /\ "sparse" \in DOMAIN pureOut.body => pureOut.body.sparse = TRUE

C30_Witness ==
  /\ pureOut.fn = "WriteBody"
  /\ {"Id", "SyncToken", "sparse", "displayName"} \subseteq DOMAIN pureIn.patch
  /\ pureIn.patch.Id = "666"
  /\ pureIn.patch.sparse = FALSE
  /\ pureIn.sparse
  /\ pureOut.body = [Id |-> "42", SyncToken |-> "3", sparse |-> TRUE,
                     DisplayName |-> "Acme"]

(***************************************************************************)
(* C23.  In the step that resolves the authorization promise, the bundle   *)
(* in memory is the answer of the exchange, the credentials file holds     *)
(* that bundle, and the listener was closed before the promise was         *)
(* resolved; an exchange whose save fails does not resolve it, and the      *)
(* process reports success only after the promise was resolved.            *)
(***************************************************************************)
C23_PersistedAndClosedBeforeResolve ==
  [][/\ (auth.promise # "resolved" /\ auth'.promise = "resolved") =>
          /\ \E r \in ExchangeResponses : ExchangeRespond(r, "ok")
          /\ ParseOk(auth'.resp.text)
          /\ tokens' = JSONparse(auth'.resp.text)
          /\ disk'.exists
          /\ disk'.text = JSONstringify(tokens')
          /\ ~auth'.openAtSettle
          /\ ~auth'.listening
     /\ \A r \in ExchangeResponses, how \in SaveOutcomes \ {"ok"} :
          (ExchangeRespond(r, how) /\ auth.promise = "pending")
            => auth'.promise = "rejected"
     /\ mainpc' = "exit0" => (auth.promise = "resolved" /\ ~auth.listening)
    ]_vars

C23_Witness ==
  /\ auth.promise = "resolved"
  /\ auth.resp = [status |-> 200, text |-> JSONstringify(Obj(GrantedBundle))]
  /\ tokens = Obj(GrantedBundle)
  /\ disk = [exists |-> TRUE, text |-> JSONstringify(Obj(GrantedBundle))]
  /\ ~auth.openAtSettle
  /\ mainpc = "exit0"

(***************************************************************************)
(* C24.  Every request carries `Bearer <access token>` with the access     *)
(* token of the bundle in memory when it is sent, and a JSON Content-Type  *)
(* exactly when it has a body; a header the caller supplies under the same *)
(* name replaces the default.                                              *)
(***************************************************************************)
Bearer(tk) == [scheme |-> "Bearer", token |-> tk.val.access_token]

HasJsonContentType(h) ==
  "Content-Type" \in DOMAIN h /\ h["Content-Type"] = "application/json"

\* the request built for given options and bundle
C24_Built ==
  pureOut.fn = "DoFetch" =>
    LET o == pureIn.options
        h == pureOut.req.headers
        own == IF "headers" \in DOMAIN o THEN o.headers ELSE EmptyObj
    IN  /\ \A k \in DOMAIN own : k \in DOMAIN h /\ h[k] = own[k]
        /\ "Authorization" \in DOMAIN h
        /\ "Authorization" \notin DOMAIN own => h.Authorization = Bearer(pureIn.tk)
        /\ (pureOut.req.body # NoBody) = ("body" \in DOMAIN o)
        /\ "Content-Type" \notin DOMAIN own =>
             /\ ("Content-Type" \in DOMAIN h) = ("body" \in DOMAIN o)
             /\ "body" \in DOMAIN o => HasJsonContentType(h)

\* the requests a step of a running call sends
C24_Sent ==
  \A p \in DOMAIN inv :
    \A n \in (Len(inv[p].log) + 1)..Len(inv'[p].log) :
      inv'[p].log[n].ev = "request" =>
        LET req == inv'[p].log[n].req
        IN  /\ ~tokens'.isNull
            /\ "access_token" \in DOMAIN tokens'.val
            /\ req.headers.Authorization = Bearer(tokens')
            /\ ("Content-Type" \in DOMAIN req.headers) = (req.body # NoBody)
            /\ req.body # NoBody => HasJsonContentType(req.headers)

C24_RequestHeaders == [](C24_Built) /\ [][C24_Sent]_vars

C24_Witness ==
  \/ /\ pureOut.fn = "DoFetch"
     /\ "body" \in DOMAIN pureIn.options
     /\ "headers" \in DOMAIN pureIn.options
     /\ DOMAIN pureIn.options.headers = {"X-Trace"}
     /\ pureOut.req.headers =
          [k \in {"Authorization", "Accept", "Content-Type", "X-Trace"} |->
             CASE k = "Authorization" -> [scheme |-> "Bearer", token |-> "A2"]
               [] k = "Accept" -> "application/json"
               [] k = "Content-Type" -> "application/json"
               [] OTHER -> "t1"]
  \/ \E p \in DOMAIN inv : \E n \in 1..Len(inv[p].log) :
       /\ inv[p].log[n].ev = "request"
       /\ inv[p].log[n].attempt = 2
       /\ inv[p].log[n].req.method = "POST"
       /\ inv[p].log[n].req.headers.Authorization.token = "A2"
       /\ HasJsonContentType(inv[p].log[n].req.headers)

(***************************************************************************)
(* C25.  After a 401 and a successful refresh the request is repeated with *)
(* the access token of the bundle in memory at that moment and with the    *)
(* URL, method and body of the first request.  The merge of the refresh    *)
(* puts the access token of the refresh response in the bundle when that   *)
(* response has one; when it has none, the merge keeps the token the       *)
(* bundle had, and the repeated request carries the rejected token again.  *)
(* The repeat is a step of its own after the merge and the save, and it is *)
(* the only request of the call that is sent as a second attempt.          *)
(***************************************************************************)
\* the first and the latest request of the qbRequest call in progress
FirstRequest(i) ==
  i.log[CHOOSE n \in 1..Len(i.log) :
          /\ i.log[n].ev = "request" /\ i.log[n].phase = i.phase
          /\ \A m \in 1..(n - 1) : ~(i.log[m].ev = "request" /\ i.log[m].phase = i.phase)].req

LatestRequest(i) ==
  i.log[CHOOSE n \in 1..Len(i.log) :
          /\ i.log[n].ev = "request"
          /\ \A m \in (n + 1)..Len(i.log) : i.log[m].ev # "request"].req

\* the step is the return of a successful refreshTokens() in call p
RefreshedBy(p, r) ==
  /\ TokenRespond(p, r, "ok")
  /\ IsOk(r.status)
  /\ ParseOk(r.text)

SameButAuthorization(a, b) ==
  /\ a.url = b.url
  /\ a.method = b.method
  /\ a.body = b.body
  /\ DOMAIN a.headers = DOMAIN b.headers
  /\ \A k \in DOMAIN a.headers \ {"Authorization"} : a.headers[k] = b.headers[k]

\* the merge of the refresh: the call waits to repeat its request
C25_Merged(p, r) ==
  LET data == JSONparse(r.text)
  IN  /\ inv'[p].pc = "refreshed"
      /\ Count(inv'[p], inv[p].phase, "request") = 1
      /\ ~tokens'.isNull
      /\ "access_token" \in DOMAIN tokens'.val
      /\ tokens'.val.access_token =
           IF ~data.isNull /\ "access_token" \in DOMAIN data.val
             THEN data.val.access_token
             ELSE tokens.val.access_token

\* the repeated request, sent once refreshTokens() has returned
C25_Repeat(p) ==
  LET first == FirstRequest(inv[p])
      again == LatestRequest(inv'[p])
  IN  /\ RefreshOk(inv[p], inv[p].phase)
      /\ Count(inv'[p], inv[p].phase, "request") = 2
      /\ inv'[p].log[Len(inv'[p].log)].ev = "request"
      /\ inv'[p].log[Len(inv'[p].log)].attempt = 2
      /\ SameButAuthorization(first, again)
      /\ tokens' = tokens
      /\ again.headers.Authorization = [scheme |-> "Bearer", token |-> tokens.val.access_token]

\* C25 as stated: the repeated request never carries the rejected token
C25_Original ==
  [][\A p \in DOMAIN inv :
       Retry(p) =>
         /\ C25_Repeat(p)
         /\ LatestRequest(inv'[p]).headers.Authorization
              # FirstRequest(inv[p]).headers.Authorization]_vars

C25_RepeatWithMergedToken ==
  [][\A p \in DOMAIN inv :
       /\ \A r \in TokenResponses : RefreshedBy(p, r) => C25_Merged(p, r)
       /\ Retry(p) => C25_Repeat(p)
       /\ (inv[p].pc # "refreshed" /\ inv'[p].pc = "await_api") => inv'[p].attempt = 1
       /\ inv[p].pc = "refreshed" => inv'[p].pc = "await_api"]_vars

C25_Witness ==
  \E p \in DOMAIN inv :
    /\ inv[p].pc = "await_api"
    /\ inv[p].attempt = 2
    /\ inv[p].phase = "write"
    /\ Count(inv[p], "write", "request") = 2
    /\ tokens.val.access_token = "A2"
    /\ LatestRequest(inv[p]).headers.Authorization.token = "A2"
    /\ LatestRequest(inv[p]).method = "POST"
    /\ LatestRequest(inv[p]).body # NoBody
    /\ EventsOf(inv[p], "write", "request")[1].req.headers.Authorization.token = "A1"
    /\ EventsOf(inv[p], "write", "request")[1].req.body = LatestRequest(inv[p]).body

(***************************************************************************)
(* C26.  A refresh that fails, for want of a refresh token or because the  *)
(* token endpoint rejects it, leaves the bundle in memory and the          *)
(* credentials file as they were; the request is not repeated and the      *)
(* call fails with the error of the refresh.                               *)
(***************************************************************************)
\* the call of p has ended with err after a single request
EndsWith(p, err) ==
  /\ inv'[p].pc = "done"
  /\ inv'[p].outcome = [state |-> "error", err |-> err]
  /\ Count(inv'[p], inv[p].phase, "request") = 1
  /\ Count(inv'[p], inv[p].phase, "refreshTokens") = 1
  /\ tokens' = tokens
  /\ disk' = disk

C26_FailedRefreshChangesNothing ==
  [][\A p \in DOMAIN inv :
       /\ \A r \in AllApiResponses :
            (r.status = 401 /\ inv[p].pc = "await_api" /\ inv[p].attempt = 1
               /\ LacksRefreshToken(tokens) /\ ApiRespond(p, r))
              => /\ EndsWith(p, [kind |-> "RefreshUnavailable", status |-> 0, text |-> EmptyText])
                 /\ Count(inv'[p], inv[p].phase, "tokenRequest") = 0
       /\ \A r \in TokenResponses, how \in SaveOutcomes :
            (~IsOk(r.status) /\ inv[p].pc = "await_token" /\ TokenRespond(p, r, how))
              => EndsWith(p, [kind |-> "RefreshFailed", status |-> r.status, text |-> r.text])]_vars

C26_Witness ==
  \E p \in DOMAIN inv :
    /\ inv[p].pc = "done"
    /\ inv[p].phase = "write"
    /\ inv[p].outcome = [state |-> "error",
                         err |-> [kind |-> "RefreshFailed", status |-> 400, text |-> FaultText]]
    /\ Statuses(inv[p], "write") = <<401>>
    /\ Count(inv[p], "write", "tokenResponse") = 1
    /\ tokens = Obj([access_token |-> "A1", refresh_token |-> "R1", realmId |-> "E1"])
    /\ disk = saveTokens(tokens)

(***************************************************************************)
(* C27.  The credentials file mirrors the bundle in memory.  As stated,    *)
(* also after a save that ended in an error; but refreshTokens and the     *)
(* callback handler assign `tokens` before they call saveTokens, so a save *)
(* that throws leaves the new bundle in memory and the old file on disk.   *)
(* What holds: a load and every successful save establish the mirror,      *)
(* every other step keeps it, and a failed save leaves the file as it was  *)
(* or, when the write fails after the open, empty or holding a part of the *)
(* text that does not parse, while memory already holds the new bundle; a  *)
(* refresh that fails before its merge changes neither.                    *)
(***************************************************************************)
Mirror(tk, d) ==
  IF d.exists THEN d.text = [t |-> "json", v |-> tk] ELSE tk = [isNull |-> TRUE, val |-> EmptyObj]

\* an answer after which refreshTokens / the callback handler reaches saveTokens
Storable(r) == IsOk(r.status) /\ ParseOk(r.text)

SaveStep(how) ==
  \/ \E p \in DOMAIN inv, r \in TokenResponses : TokenRespond(p, r, how) /\ Storable(r)
  \/ \E r \in ExchangeResponses : ExchangeRespond(r, how) /\ ParseOk(r.text)

\* C27 as stated: while the server runs, the file always mirrors memory
C27_Original == mainpc = "serving" => Mirror(tokens, disk)

C27_MirrorUnlessSaveFails ==
  [][/\ (mainpc = "boot" /\ mainpc' \in {"serving", "auth"}) => Mirror(tokens', disk')
     /\ SaveStep("ok") => Mirror(tokens', disk')
     /\ SaveStep("open_fails") => disk' = disk
     /\ SaveStep("write_fails") => disk' = [exists |-> TRUE, text |-> EmptyText]
     /\ SaveStep("write_partial") =>
          (disk'.exists /\ disk'.text # EmptyText /\ ~ParseOk(disk'.text))
     /\ (mainpc # "boot" /\ Mirror(tokens, disk)
           /\ ~SaveStep("open_fails") /\ ~SaveStep("write_fails")
           /\ ~SaveStep("write_partial"))
          => Mirror(tokens', disk')
     /\ (\E p \in DOMAIN inv, r \in TokenResponses, how \in SaveOutcomes :
           TokenRespond(p, r, how) /\ ~Storable(r))
          => (tokens' = tokens /\ disk' = disk)]_vars

\* a refresh has merged a rotated pair into a loaded bundle and saved it
C27_Witness ==
  \E p \in DOMAIN inv :
    /\ mainpc = "serving"
    /\ inv[p].phase = "write"
    /\ Count(inv[p], "write", "saveTokens") = 1
    /\ EventsOf(inv[p], "write", "saveTokens")[1].ok
    /\ tokens = Obj([access_token |-> "A2", refresh_token |-> "R2", realmId |-> "E1"])
    /\ disk.exists
    /\ disk.text = JSONstringify(tokens)

(***************************************************************************)
(* C28.  In an update call the write is repeated, after a 401 and a        *)
(* refresh, with the body of the first write: the Id and the SyncToken of  *)
(* the record the call fetched.  Nothing is fetched after the first write, *)
(* and the whole call issues at most 4 API requests and at most 2 refresh  *)
(* calls.                                                                  *)
(***************************************************************************)
RequestsOf(i) == SelectSeq(i.log, LAMBDA e : e.ev = "request")

C28_RepeatedWriteSameBody ==
  \A p \in DOMAIN inv :
    LET i == inv[p]
        all == RequestsOf(i)
        writes == EventsOf(i, "write", "request")
    IN  i.tool \in UpdateTools =>
          /\ Len(all) <= 4
          /\ Cardinality(Positions(i, "refreshTokens")) <= 2
          /\ Count(i, "fetch", "request") <= 2
          /\ Len(writes) <= 2
          /\ \A n \in 1..Len(all) :
               all[n].req.method = IF n <= Count(i, "fetch", "request") THEN "GET" ELSE "POST"
          /\ \A n \in 1..Len(writes) :
               /\ writes[n].req.url = writes[1].req.url
               /\ writes[n].req.body.t = "json"
               /\ writes[n].req.body = writes[1].req.body
               /\ writes[n].req.body.v.Id = i.existing.val.Id
               /\ writes[n].req.body.v.SyncToken = i.existing.val.SyncToken

C28_Witness ==
  \E p \in DOMAIN inv :
    /\ inv[p].tool = "update_customer"
    /\ inv[p].pc = "done"
    /\ inv[p].outcome.state = "ok"
    /\ Statuses(inv[p], "fetch") = <<401, 200>>
    /\ Statuses(inv[p], "write") = <<401, 200>>
    /\ Cardinality(Positions(inv[p], "refreshTokens")) = 2
    /\ Len(RequestsOf(inv[p])) = 4
    /\ RequestsOf(inv[p])[4].req.body = RequestsOf(inv[p])[3].req.body
    /\ RequestsOf(inv[p])[4].req.body.v.SyncToken = "3"

(***************************************************************************)
(* C29.  With invocations in progress at once, each qbRequest call still   *)
(* sends at most two requests and refreshes at most once; a call answered  *)
(* 401 runs its own refresh whatever the others have done to the bundle,   *)
(* and repeats its request only after its own refresh has succeeded and    *)
(* been saved, with the access token the bundle holds when the repeat is   *)
(* sent; a step of one invocation leaves every other invocation as it was. *)
(***************************************************************************)
C29_PerCall ==
  \A p \in DOMAIN inv : \A ph \in Calls(inv[p]) :
    LET i == inv[p]
        st == Statuses(i, ph)
        rq == EventsOf(i, ph, "request")
    IN  /\ Len(rq) <= 2
        /\ Count(i, ph, "refreshTokens") <= 1
        /\ Count(i, ph, "tokenRequest") <= 1
        /\ Count(i, ph, "refreshTokens") = (IF Len(st) >= 1 /\ st[1] = 401 THEN 1 ELSE 0)
        /\ Len(rq) = (IF \E n \in 1..Len(i.log) :
                           i.log[n].phase = ph /\ i.log[n].ev = "saveTokens" /\ i.log[n].ok
                          /\ ~(i.pc = "refreshed" /\ i.phase = ph)
                        THEN 2 ELSE IF i.pc = "qb_start" THEN 0 ELSE 1)

C29_OthersUntouched ==
  \A p \in DOMAIN inv :
    inv'[p] # inv[p] => \A q \in DOMAIN inv \ {p} : inv'[q] = inv[q]

C29_RepeatReadsBundle ==
  \A p \in DOMAIN inv :
    Retry(p) =>
      /\ Count(inv[p], inv[p].phase, "request") = 1
      /\ \E n \in Positions(inv[p], "saveTokens") :
           inv[p].log[n].phase = inv[p].phase /\ inv[p].log[n].ok
      /\ LatestRequest(inv'[p]).headers.Authorization =
           [scheme |-> "Bearer", token |-> tokens.val.access_token]

C29_CallsIndependent ==
  [](C29_PerCall) /\ [][C29_OthersUntouched /\ C29_RepeatReadsBundle]_vars

\* both calls were answered 401 and each ran its own refresh; the grant of p1
\* had no access token, and p1 repeated its request with the token that the
\* refresh of p2 had put in the bundle by then
C29_Witness ==
  /\ DOMAIN inv = ConcProcs
  /\ Statuses(inv["p2"], "single") = <<401>>
  /\ Statuses(inv["p1"], "single") = <<401>>
  /\ inv["p1"].pc = "await_api"
  /\ Count(inv["p1"], "single", "request") = 2
  /\ Count(inv["p1"], "single", "refreshTokens") = 1
  /\ Count(inv["p2"], "single", "refreshTokens") = 1
  /\ Len(EventsOf(inv["p1"], "single", "tokenResponse")) = 1
  /\ ~EventsOf(inv["p1"], "single", "tokenResponse")[1].granted
  /\ Len(EventsOf(inv["p2"], "single", "tokenResponse")) = 1
  /\ EventsOf(inv["p2"], "single", "tokenResponse")[1].granted
  /\ EventsOf(inv["p1"], "single", "request")[1].req.headers.Authorization.token = "A1"
  /\ EventsOf(inv["p1"], "single", "request")[2].req.headers.Authorization.token = "A2"

====
